---- MODULE Spec2Model ----
(***************************************************************************)
(* A model of graylog-mcp's result-shaping pipeline:                       *)
(*   - dedup.Deduplicate / dedup.CapMessageIDs / dedup.hashMessage         *)
(*   - tools.fitResult and the adapters its callers inject                 *)
(*   - tools.getLogContextHandler (the context window assembler)           *)
(*   - field filtering (Message.ToFilteredMap and its two siblings)        *)
(*   - tools.searchLogsHandler / tools.executeSearch                       *)
(* Each part has its own specification (SpecDedup, SpecHash, SpecFit, ...); *)
(* the variables of the other parts stay at their idle values.             *)
(***************************************************************************)
EXTENDS Integers, Sequences, FiniteSets, TLC

VARIABLES
    \* ---- dedup.Deduplicate, one loop iteration per step
    messages,     \* the batch: []graylog.MessageWrapper
    hashFields,   \* the allow-list argument (<<>> is nil)
    pos,          \* number of batch entries the range loop has consumed
    seen,         \* map hash -> index in results
    results,      \* []DedupResult
    preCap,       \* history: results as Deduplicate returned them
    maxIDs,       \* the argument of CapMessageIDs
    dpc,          \* "loop" | "returned" | "capped" | "idle"
    \* ---- dedup.hashMessage applied to a pair of messages
    hm1, hm2,     \* the two messages
    hFields,      \* the allow-list
    h1, h2,       \* the two hashes
    hgroups,      \* Deduplicate on the batch <<hm1, hm2>>
    hpc,          \* "start" | "hashed" | "idle"
    \* ---- tools.fitResult, one adapter call per step
    fkind,        \* which adapter: "search" | "dedup" | "context" | "template" |
                  \* "aggregate" | "stub" (an arbitrary resultAdapter)
    hasLastResort,\* adapter.lastResort != nil
    maxSize,      \* the byte budget
    input,        \* history: the result map as passed in
    result,       \* the result map (mutated in place)
    fpc,          \* "enter" | "phase1" | "phase2" | "lastResort" | "done" | "idle"
    truncIdx,     \* position in the phase 1 range loop
    iter,         \* i of the phase 2 loop
    out,          \* the payload of the returned CallToolResult
    retAt,        \* history: the return statement taken
    calls,        \* history: the adapter calls made, in order
    \* ---- tools.getLogContextHandler, one upstream call per step
    creq,         \* the request arguments
    ctxBefore,    \* before, after the cap at 500
    ctxAfter,     \* after, after the cap at 500
    ctxTarget,    \* the message GetMessage returned
    upstream,     \* history: the upstream calls issued, in order
    beforeBatch,  \* history: beforeResp.Messages as the upstream returned them
    afterBatch,   \* history: afterResp.Messages as the upstream returned them
    messagesBefore,
    messagesAfter,
    cresult,      \* the result map handed to fitContextResult
    cerr,         \* the text of a toolError return ("" when none)
    cpc,          \* "args" | "getTarget" | "before" | "after" | "build" | "fit" |
                  \* "done" | "idle"
    \* ---- field filtering of one message in the three output shapes
    pmsg,         \* the message wrapper
    pfields,      \* the tokens of the fields argument
    pFlat,        \* the message map of an ungrouped search result
    pGroup,       \* the message map of a serialized dedup group
    pCtx,         \* the message map of a serialized context entry
    pdone,        \* the shapes computed so far
    \* ---- tools.searchLogsHandler / executeSearch
    sreq,         \* the request arguments
    sparams,      \* graylog.SearchParams as sent upstream
    sresp,        \* the SearchResponse
    uniqueCount,  \* len(dedupResults) before slicing
    sresult,      \* the result map handed to fitSearchResult
    serr,         \* the text of a toolError return ("" when none)
    supstream,    \* history: the Search calls issued
    spc,          \* "args" | "search" | "fit" | "done" | "idle"
    \* ---- tools.templateizeMessages and capTemplateMessageIDs
    tmsgs,        \* the messages argument
    tparsed,      \* what the pattern miner returned: [Templates, Groups]
    tsorted,      \* history: the list templateizeMessages returned
    tresults,     \* []TemplateResult
    tcap,         \* the maxIDs argument of capTemplateMessageIDs
    terr,         \* the error templateizeMessages returned ("" when none)
    tpc,          \* "start" | "returned" | "failed" | "capped" | "idle"
    \* ---- the reduceMsgs closure of fitSearchResult, called again and again
    rstart,       \* history: the number of entries at the start
    rprev,        \* history: the number of entries before the last call
    rcount,       \* len of the list in the result map
    rcalls,       \* i of fitResult's phase 2 loop: calls that returned true
    rpc           \* "loop" | "stopped" | "idle"

dedupVars == <<messages, hashFields, pos, seen, results, preCap, maxIDs, dpc>>
hashVars  == <<hm1, hm2, hFields, h1, h2, hgroups, hpc>>
fitVars   == <<fkind, hasLastResort, maxSize, input, result, fpc, truncIdx, iter,
               out, retAt, calls>>
ctxVars   == <<creq, ctxBefore, ctxAfter, ctxTarget, upstream, beforeBatch, afterBatch,
               messagesBefore, messagesAfter, cresult, cerr, cpc>>
projVars  == <<pmsg, pfields, pFlat, pGroup, pCtx, pdone>>
searchVars == <<sreq, sparams, sresp, uniqueCount, sresult, serr, supstream, spc>>
tmplVars  == <<tmsgs, tparsed, tsorted, tresults, tcap, terr, tpc>>
reduceVars == <<rstart, rprev, rcount, rcalls, rpc>>
vars      == <<dedupVars, hashVars, fitVars, ctxVars, projVars, searchVars, tmplVars,
               reduceVars>>

(***************************************************************************)
(* Bounds of the model                                                     *)
(***************************************************************************)
MaxBatch == 5      \* longest batch handed to Deduplicate
MaxCap   == 3      \* largest maxIDs handed to CapMessageIDs
MaxEntries == 4    \* longest message / group / template / row list fitted
MaxSide  == 2      \* longest messages_before / messages_after fitted
MaxFetch == 3      \* longest batch a directional context search returns

Range(s) == { s[k] : k \in 1..Len(s) }

RECURSIVE SumSeq(_)
SumSeq(s) == IF s = <<>> THEN 0 ELSE Head(s) + SumSeq(Tail(s))

Min(a, b) == IF a <= b THEN a ELSE b

(***************************************************************************)
(* graylog.Message and graylog.MessageWrapper                              *)
(***************************************************************************)
Sources    == {"hostA", "hostB"}
Timestamps == {"t1", "t2"}
FieldVals  == {"x", "y"}
\* Names an extension field can have.  populateExtra never stores _id,
\* timestamp, source or message in Extra; any other name is possible.
ExtraKeys  == {"index", "level"}

Extras == UNION { [ks -> FieldVals] : ks \in SUBSET ExtraKeys }

Message(id, ts, src, body, extra) ==
    [ID |-> id, Timestamp |-> ts, Source |-> src, Message |-> body, Extra |-> extra]

MessageWrapper(msg, index) == [Message |-> msg, Index |-> index]

NoExtra == [k \in {} |-> "x"]

(***************************************************************************)
(* dedup.hashMessage                                                       *)
(***************************************************************************)
\* sort.Strings order (byte-wise) of every key a hashed map can hold.
KeyOrder == <<"_id", "index", "level", "message", "source", "timestamp">>

messageToMap(msg) ==
    [k \in {"source", "message"} \cup DOMAIN msg.Extra |->
        IF k \in DOMAIN msg.Extra THEN msg.Extra[k]
        ELSE IF k = "source" THEN msg.Source ELSE msg.Message]

shouldSkipFieldNoIndex(field) == field = "_id" \/ field = "timestamp"

shouldSkipField(field) == field = "_id" \/ field = "timestamp" \/ field = "index"

\* The key/value pairs of m in ascending key order.
sortedMap(m) ==
    LET keys == SelectSeq(KeyOrder, LAMBDA k : k \in DOMAIN m)
    IN  [n \in 1..Len(keys) |-> <<keys[n], m[keys[n]]>>]

\* sha256 over json.Marshal of the sorted pairs is injective on these values
\* (barring collisions), so the hash is modelled as the pair list itself.
hashMessage(msg, fields) ==
    LET all == messageToMap(msg)
    IN  IF Len(fields) > 0
        THEN sortedMap([f \in Range(fields) \cap DOMAIN all |-> all[f]])
        ELSE sortedMap([k \in { f \in DOMAIN all : ~shouldSkipField(f) } |-> all[k]])

(***************************************************************************)
(* dedup.Deduplicate and dedup.CapMessageIDs                               *)
(***************************************************************************)
DedupResult(mw) ==
    [Message |-> mw.Message, Index |-> mw.Index, Count |-> 1,
     MessageIDs |-> <<mw.Message.ID>>]

AddToGroupNoCount(res, idx, id) ==
    [res EXCEPT ![idx].MessageIDs = Append(@, id)]

AddToGroupPrepend(res, idx, id) ==
    [res EXCEPT ![idx].Count = @ + 1, ![idx].MessageIDs = <<id>> \o @]

\* results[idx].Count++ ; results[idx].MessageIDs = append(..., id)
AddToGroup(res, idx, id) ==
    [res EXCEPT ![idx].Count = @ + 1, ![idx].MessageIDs = Append(@, id)]

capIDsOffByOne(ids, n) ==
    IF Len(ids) > n THEN SubSeq(ids, 1, n + 1) ELSE ids

\* if len(ids) > maxIDs { ids = ids[:maxIDs] }
capIDs(ids, n) ==
    IF Len(ids) > n THEN SubSeq(ids, 1, n) ELSE ids

CapMessageIDs(res, n) ==
    [g \in 1..Len(res) |-> [res[g] EXCEPT !.MessageIDs = capIDs(@, n)]]

EmptyMap == [k \in {} |-> 0]

\* The body of Deduplicate's range loop, on the loop state st = (seen, results).
dedupIter(st, mw, fields) ==
    LET h == hashMessage(mw.Message, fields)
    IN  IF h \in DOMAIN st.seen
        THEN [seen    |-> st.seen,
              results |-> AddToGroup(st.results, st.seen[h], mw.Message.ID)]
        ELSE [seen    |-> (h :> (Len(st.results) + 1)) @@ st.seen,
              results |-> Append(st.results, DedupResult(mw))]

RECURSIVE dedupLoop(_, _, _)
dedupLoop(st, msgs, fields) ==
    IF msgs = <<>> THEN st
    ELSE dedupLoop(dedupIter(st, Head(msgs), fields), Tail(msgs), fields)

\* Deduplicate(messages, hashFields) as a whole.
Deduplicate(msgs, fields) ==
    dedupLoop([seen |-> EmptyMap, results |-> <<>>], msgs, fields).results

\* The message kinds a batch is drawn from: they differ in body, in
\* timestamp and origin index only, or in an extension field.
BatchKinds ==
    { [ts |-> "t1", src |-> "hostA", body |-> "A", extra |-> NoExtra, index |-> "idx1"],
      [ts |-> "t2", src |-> "hostA", body |-> "A", extra |-> NoExtra, index |-> "idx2"],
      [ts |-> "t1", src |-> "hostA", body |-> "B", extra |-> NoExtra, index |-> "idx1"],
      [ts |-> "t1", src |-> "hostA", body |-> "C", extra |-> NoExtra, index |-> "idx1"],
      [ts |-> "t1", src |-> "hostA", body |-> "A", extra |-> [k \in {"level"} |-> "x"],
       index |-> "idx1"],
      [ts |-> "t1", src |-> "hostA", body |-> "A", extra |-> [k \in {"index"} |-> "y"],
       index |-> "idx1"] }

\* A batch of n messages; the upstream gives every message its own id.
BatchOf(ks) ==
    [n \in 1..Len(ks) |->
        MessageWrapper(Message(n, ks[n].ts, ks[n].src, ks[n].body, ks[n].extra),
                       ks[n].index)]

Batches == { BatchOf(ks) : ks \in UNION { [1..n -> BatchKinds] : n \in 0..MaxBatch } }

DedupIdle ==
    /\ messages = <<>> /\ hashFields = <<>> /\ pos = 0 /\ seen = EmptyMap
    /\ results = <<>> /\ preCap = <<>> /\ maxIDs = 0 /\ dpc = "idle"

DedupInit ==
    /\ messages \in Batches
    /\ hashFields \in {<<>>, <<"message">>}
    /\ pos = 0
    /\ seen = EmptyMap
    /\ results = <<>>
    /\ preCap = <<>>
    /\ maxIDs = 0
    /\ dpc = "loop"

\* One iteration of `for _, mw := range messages`.
DedupStep ==
    /\ dpc = "loop"
    /\ pos < Len(messages)
    /\ LET st == dedupIter([seen |-> seen, results |-> results],
                           messages[pos + 1], hashFields)
       IN  /\ seen' = st.seen
           /\ results' = st.results
    /\ pos' = pos + 1
    /\ UNCHANGED <<messages, hashFields, preCap, maxIDs, dpc>>
    /\ UNCHANGED <<hashVars, fitVars, ctxVars, projVars, searchVars, tmplVars, reduceVars>>

\* `return results` once the range loop is exhausted.
DedupReturn ==
    /\ dpc = "loop"
    /\ pos = Len(messages)
    /\ dpc' = "returned"
    /\ preCap' = results
    /\ UNCHANGED <<messages, hashFields, pos, seen, results, maxIDs>>
    /\ UNCHANGED <<hashVars, fitVars, ctxVars, projVars, searchVars, tmplVars, reduceVars>>

\* CapMessageIDs(results, n) on what Deduplicate returned.
CapStep ==
    /\ dpc = "returned"
    /\ \E n \in 0..MaxCap :
          /\ maxIDs' = n
          /\ results' = CapMessageIDs(results, n)
    /\ dpc' = "capped"
    /\ UNCHANGED <<messages, hashFields, pos, seen, preCap>>
    /\ UNCHANGED <<hashVars, fitVars, ctxVars, projVars, searchVars, tmplVars, reduceVars>>

(***************************************************************************)
(* hashMessage on a pair of messages                                       *)
(***************************************************************************)
HashIdle ==
    /\ hm1 = <<>> /\ hm2 = <<>> /\ hFields = <<>> /\ h1 = <<>> /\ h2 = <<>>
    /\ hgroups = <<>> /\ hpc = "idle"

HashMsgs ==
    { Message(id, ts, src, body, extra) :
        id \in {1, 2}, ts \in Timestamps, src \in Sources,
        body \in {"A", "B"}, extra \in Extras }

AllowLists ==
    { <<>>, <<"message">>, <<"index">>, <<"_id", "timestamp">>,
      <<"level", "source">>, <<"timestamp", "level", "index">> }

HashInit ==
    /\ hm1 \in HashMsgs
    /\ hm2 \in HashMsgs
    /\ hFields \in AllowLists
    /\ h1 = <<>> /\ h2 = <<>>
    /\ hgroups = <<>>
    /\ hpc = "start"

HashPair ==
    /\ hpc = "start"
    /\ h1' = hashMessage(hm1, hFields)
    /\ h2' = hashMessage(hm2, hFields)
    /\ hgroups' = Deduplicate(<<MessageWrapper(hm1, "idx1"), MessageWrapper(hm2, "idx2")>>,
                              hFields)
    /\ hpc' = "hashed"
    /\ UNCHANGED <<hm1, hm2, hFields>>
    /\ UNCHANGED <<dedupVars, fitVars, ctxVars, projVars, searchVars, tmplVars, reduceVars>>

(***************************************************************************)
(* Strings, as truncateString sees them: p bytes of runes of w bytes each, *)
(* followed by t bytes of ASCII (a "...[truncated]" suffix, or part of it).*)
(***************************************************************************)
Str(w, p, t) == [w |-> w, p |-> p, t |-> t]

StrLen(s) == s.p + s.t

truncateStringAlways(s, maxBytes) ==
    IF maxBytes < s.p
    THEN Str(s.w, maxBytes - (maxBytes % s.w), 14)
    ELSE Str(s.w, s.p, Min(s.t, maxBytes - s.p) + 14)

\* s[:maxBytes] cut back to a rune start, plus the 14 bytes "...[truncated]".
truncateString(s, maxBytes) ==
    IF StrLen(s) <= maxBytes THEN s
    ELSE IF maxBytes < s.p
         THEN Str(s.w, maxBytes - (maxBytes % s.w), 14)
         ELSE Str(s.w, s.p, (maxBytes - s.p) + 14)

(***************************************************************************)
(* Result maps (map[string]any) and their serialized length                *)
(***************************************************************************)
SetKey(r, k, v) == (k :> v) @@ r

\* An entry of a list: its text (message body or template) and the bytes
\* every other field of the entry serializes to.
Entry(body, rest) == [body |-> body, rest |-> rest]

EntryLen(e) == e.rest + StrLen(e.body)

RECURSIVE ListLen(_)
ListLen(l) == IF l = <<>> THEN 0 ELSE EntryLen(Head(l)) + ListLen(Tail(l))

ListKeys == <<"messages", "deduplicated", "messages_before", "messages_after",
              "templates", "rows">>

RECURSIVE ListsLen(_, _)
ListsLen(r, keys) ==
    IF keys = <<>> THEN 0
    ELSE (IF Head(keys) \in DOMAIN r THEN ListLen(r[Head(keys)]) ELSE 0)
         + ListsLen(r, Tail(keys))

\* len(json.Marshal(r)): 25 bytes per top-level key and scalar, plus the
\* entries of every list, the target message and a stub's payload.
MarshalLen(r) ==
    25 * Cardinality(DOMAIN r)
    + ListsLen(r, ListKeys)
    + (IF "target_message" \in DOMAIN r THEN EntryLen(r["target_message"]) ELSE 0)
    + (IF "payload" \in DOMAIN r THEN r["payload"] ELSE 0)

TruncateList(l, maxLen) ==
    [n \in 1..Len(l) |-> [l[n] EXCEPT !.body = truncateString(@, maxLen)]]

(***************************************************************************)
(* fitSearchResult's adapter (isDedup selects the list)                    *)
(***************************************************************************)
SearchKey(isDedup) == IF isDedup THEN "deduplicated" ELSE "messages"

truncateMessagesInResult(r, maxLen, isDedup) ==
    [r EXCEPT ![SearchKey(isDedup)] = TruncateList(@, maxLen)]

searchMessageCount(r, isDedup) == Len(r[SearchKey(isDedup)])

reduceMessagesInResultKeepsTail(r, count, isDedup) ==
    IF count < Len(r[SearchKey(isDedup)])
    THEN [r EXCEPT ![SearchKey(isDedup)] = SubSeq(@, Len(@) - count + 1, Len(@))]
    ELSE r

\* result[key] = list[:count] when count < len(list)
reduceMessagesInResult(r, count, isDedup) ==
    IF count < Len(r[SearchKey(isDedup)])
    THEN [r EXCEPT ![SearchKey(isDedup)] = SubSeq(@, 1, count)]
    ELSE r

SearchNewCountDecrement(count) == count - 1

\* newCount := count / 2; if newCount < 1 { newCount = 1 }
SearchNewCount(count) ==
    LET half == count \div 2
    IN  IF half < 1 THEN 1 ELSE half

SearchReduceForgetsHasMore(r, isDedup) ==
    LET count == searchMessageCount(r, isDedup)
    IN  IF count <= 1
        THEN [ok |-> FALSE, result |-> r]
        ELSE [ok |-> TRUE,
              result |-> reduceMessagesInResult(r, SearchNewCount(count), isDedup)]

\* The reduceMsgs closure: [ok |-> its return value, result |-> the map after].
SearchReduce(r, isDedup) ==
    LET count    == searchMessageCount(r, isDedup)
        newCount == SearchNewCount(count)
    IN  IF count <= 1
        THEN [ok |-> FALSE, result |-> r]
        ELSE [ok |-> TRUE,
              result |-> SetKey(reduceMessagesInResult(r, newCount, isDedup),
                                "has_more", TRUE)]

SearchLastResortKeepsList(r, isDedup) ==
    [k \in DOMAIN r |-> r[k]] @@ [response_truncated |-> TRUE, error |-> "too large"]

SearchLastResort(r, isDedup) ==
    LET totalKey == IF isDedup THEN "total_raw_results" ELSE "total_results"
        metadata == (totalKey :> r[totalKey]) @@
                    [limit |-> r["limit"], offset |-> r["offset"], has_more |-> TRUE,
                     response_truncated |-> TRUE,
                     error |-> "Response too large even after truncation."]
    IN  IF isDedup THEN SetKey(metadata, "unique_in_batch", r["unique_in_batch"])
        ELSE metadata

(***************************************************************************)
(* fitContextResult's adapter                                              *)
(***************************************************************************)
truncateContextMessages(r, maxLen) ==
    [r EXCEPT !["target_message"].body = truncateString(@, maxLen),
              !["messages_before"] = TruncateList(@, maxLen),
              !["messages_after"]  = TruncateList(@, maxLen)]

contextMessageCount(r, key) == Len(r[key])

reduceContextMessages(r, key, count) ==
    IF count < Len(r[key]) THEN [r EXCEPT ![key] = SubSeq(@, 1, count)] ELSE r

ContextReduce(r) ==
    LET before    == contextMessageCount(r, "messages_before")
        after     == contextMessageCount(r, "messages_after")
        newBefore == IF before \div 2 < 1 /\ before > 0 THEN 1 ELSE before \div 2
        newAfter  == IF after \div 2 < 1 /\ after > 0 THEN 1 ELSE after \div 2
    IN  IF before + after <= 2
        THEN [ok |-> FALSE, result |-> r]
        ELSE [ok |-> TRUE,
              result |->
                  SetKey(reduceContextMessages(
                             reduceContextMessages(r, "messages_before", newBefore),
                             "messages_after", newAfter),
                         "context_incomplete", TRUE)]

ContextLastResort(r) ==
    LET t == r["target_message"]
        metadata == [target_message_id |-> t.id, target_timestamp |-> t.timestamp,
                     target_index |-> t.index,
                     context_incomplete |-> r["context_incomplete"],
                     has_more |-> TRUE, response_truncated |-> TRUE,
                     error |-> "Context response too large even after truncation."]
        errs == [k \in DOMAIN r \cap {"before_error", "after_error"} |-> r[k]]
    IN  errs @@ metadata

(***************************************************************************)
(* fitTemplateSearchResult's and fitAggregateResult's adapters             *)
(***************************************************************************)
TemplateTruncate(r, maxLen) == [r EXCEPT !["templates"] = TruncateList(@, maxLen)]

TemplateReduce(r) ==
    LET n        == Len(r["templates"])
        newCount == IF n \div 2 < 1 THEN 1 ELSE n \div 2
    IN  IF n <= 1
        THEN [ok |-> FALSE, result |-> r]
        ELSE [ok |-> TRUE, result |-> [r EXCEPT !["templates"] = SubSeq(@, 1, newCount)]]

TemplateLastResort(r) ==
    [total_results |-> r["total_results"], template_count |-> r["template_count"],
     response_truncated |-> TRUE,
     error |-> "Response too large even after truncation."]

AggregateReduce(r) ==
    LET n        == Len(r["rows"])
        newCount == IF n \div 2 < 1 THEN 1 ELSE n \div 2
    IN  IF n <= 1
        THEN [ok |-> FALSE, result |-> r]
        ELSE [ok |-> TRUE,
              result |-> SetKey([r EXCEPT !["rows"] = SubSeq(@, 1, newCount)],
                                "rows_truncated", TRUE)]

AggregateLastResort(r) ==
    [total_rows |-> r["total_rows"], metadata |-> r["metadata"],
     response_truncated |-> TRUE,
     error |-> "Aggregation response too large even after truncation."]

(***************************************************************************)
(* resultAdapter: the three injected operations, by adapter                *)
(***************************************************************************)
\* Payload sizes an arbitrary adapter may leave behind.
StubSizes == {10, 100000}

\* adapter.truncateMsgs(maxLen): the maps the call can leave in `result`.
TruncateOutcomes(kind, r, maxLen) ==
    CASE kind = "search"    -> { truncateMessagesInResult(r, maxLen, FALSE) }
      [] kind = "dedup"     -> { truncateMessagesInResult(r, maxLen, TRUE) }
      [] kind = "context"   -> { truncateContextMessages(r, maxLen) }
      [] kind = "template"  -> { TemplateTruncate(r, maxLen) }
      [] kind = "aggregate" -> { r }
      [] kind = "stub"      -> { SetKey(r, "payload", n) : n \in StubSizes }

\* adapter.reduceMsgs(): its possible return values and effects.
ReduceOutcomes(kind, r) ==
    CASE kind = "search"    -> { SearchReduce(r, FALSE) }
      [] kind = "dedup"     -> { SearchReduce(r, TRUE) }
      [] kind = "context"   -> { ContextReduce(r) }
      [] kind = "template"  -> { TemplateReduce(r) }
      [] kind = "aggregate" -> { AggregateReduce(r) }
      [] kind = "stub"      -> { [ok |-> b, result |-> SetKey(r, "payload", n)] :
                                   b \in BOOLEAN, n \in StubSizes }

\* adapter.lastResort()
LastResort(kind, r) ==
    CASE kind = "search"    -> SearchLastResort(r, FALSE)
      [] kind = "dedup"     -> SearchLastResort(r, TRUE)
      [] kind = "context"   -> ContextLastResort(r)
      [] kind = "template"  -> TemplateLastResort(r)
      [] kind = "aggregate" -> AggregateLastResort(r)
      [] kind = "stub"      -> [response_truncated |-> TRUE, error |-> "too large"]

(***************************************************************************)
(* fitResult                                                               *)
(***************************************************************************)
TruncLensAscending == <<50, 100, 200, 500>>

\* for _, truncLen := range []int{500, 200, 100, 50}
TruncLens == <<500, 200, 100, 50>>

MaxReduceItersPlusOne == 20 + 1

\* for i := 0; i < 20; i++
MaxReduceIters == 20

SkipFittingNegativeOnly(budget) == budget < 0

\* if maxSize <= 0
SkipFitting(budget) == budget <= 0

MarkTruncatedForgotten(r) == r

\* result["response_truncated"] = true
MarkTruncated(r) == SetKey(r, "response_truncated", TRUE)

Call(op, arg, ok, size) == [op |-> op, arg |-> arg, ok |-> ok, size |-> size]

NoOut == [none |-> TRUE]

\* if maxSize <= 0 { return toolSuccess(result), nil }
FitPassThrough ==
    /\ fpc = "enter"
    /\ SkipFitting(maxSize)
    /\ out' = result
    /\ retAt' = "passthrough"
    /\ fpc' = "done"
    /\ UNCHANGED <<fkind, hasLastResort, maxSize, input, result, truncIdx, iter, calls>>
    /\ UNCHANGED <<dedupVars, hashVars, ctxVars, projVars, searchVars, tmplVars, reduceVars>>

\* if len(jsonBytes) <= maxSize { return toolSuccessJSON(jsonBytes), nil }
FitAlreadyFits ==
    /\ fpc = "enter"
    /\ ~SkipFitting(maxSize)
    /\ MarshalLen(result) <= maxSize
    /\ out' = result
    /\ retAt' = "fits"
    /\ fpc' = "done"
    /\ UNCHANGED <<fkind, hasLastResort, maxSize, input, result, truncIdx, iter, calls>>
    /\ UNCHANGED <<dedupVars, hashVars, ctxVars, projVars, searchVars, tmplVars, reduceVars>>

FitEnterPhase1 ==
    /\ fpc = "enter"
    /\ ~SkipFitting(maxSize)
    /\ MarshalLen(result) > maxSize
    /\ fpc' = "phase1"
    /\ truncIdx' = 1
    /\ UNCHANGED <<fkind, hasLastResort, maxSize, input, result, iter, out, retAt, calls>>
    /\ UNCHANGED <<dedupVars, hashVars, ctxVars, projVars, searchVars, tmplVars, reduceVars>>

\* One iteration of the phase 1 loop.
FitTruncate ==
    /\ fpc = "phase1"
    /\ \E r2 \in TruncateOutcomes(fkind, result, TruncLens[truncIdx]) :
          LET r3 == MarkTruncated(r2)
          IN  /\ result' = r3
              /\ calls' = Append(calls, Call("truncateMsgs", TruncLens[truncIdx], TRUE,
                                             MarshalLen(r3)))
              /\ IF MarshalLen(r3) <= maxSize
                 THEN /\ out' = r3 /\ retAt' = "phase1" /\ fpc' = "done"
                      /\ UNCHANGED <<truncIdx, iter>>
                 ELSE /\ UNCHANGED <<out, retAt>>
                      /\ IF truncIdx < Len(TruncLens)
                         THEN /\ truncIdx' = truncIdx + 1
                              /\ UNCHANGED <<fpc, iter>>
                         ELSE /\ fpc' = "phase2" /\ iter' = 0
                              /\ UNCHANGED truncIdx
    /\ UNCHANGED <<fkind, hasLastResort, maxSize, input>>
    /\ UNCHANGED <<dedupVars, hashVars, ctxVars, projVars, searchVars, tmplVars, reduceVars>>

\* One iteration of the phase 2 loop in which reduceMsgs returned true.
FitReduce ==
    /\ fpc = "phase2"
    /\ iter < MaxReduceIters
    /\ \E o \in ReduceOutcomes(fkind, result) :
          /\ o.ok
          /\ LET r3 == MarkTruncated(o.result)
             IN  /\ result' = r3
                 /\ calls' = Append(calls, Call("reduceMsgs", 0, TRUE, MarshalLen(r3)))
                 /\ IF MarshalLen(r3) <= maxSize
                    THEN /\ out' = r3 /\ retAt' = "phase2" /\ fpc' = "done"
                         /\ UNCHANGED iter
                    ELSE /\ UNCHANGED <<out, retAt, fpc>>
                         /\ iter' = iter + 1
    /\ UNCHANGED <<fkind, hasLastResort, maxSize, input, truncIdx>>
    /\ UNCHANGED <<dedupVars, hashVars, ctxVars, projVars, searchVars, tmplVars, reduceVars>>

\* if !adapter.reduceMsgs() { break }
FitReduceBreak ==
    /\ fpc = "phase2"
    /\ iter < MaxReduceIters
    /\ \E o \in ReduceOutcomes(fkind, result) :
          /\ ~o.ok
          /\ result' = o.result
          /\ calls' = Append(calls, Call("reduceMsgs", 0, FALSE, MarshalLen(o.result)))
    /\ fpc' = "lastResort"
    /\ UNCHANGED <<fkind, hasLastResort, maxSize, input, truncIdx, iter, out, retAt>>
    /\ UNCHANGED <<dedupVars, hashVars, ctxVars, projVars, searchVars, tmplVars, reduceVars>>

\* The phase 2 loop condition i < 20 fails.
FitReduceExhausted ==
    /\ fpc = "phase2"
    /\ iter >= MaxReduceIters
    /\ fpc' = "lastResort"
    /\ UNCHANGED <<fkind, hasLastResort, maxSize, input, result, truncIdx, iter, out,
                   retAt, calls>>
    /\ UNCHANGED <<dedupVars, hashVars, ctxVars, projVars, searchVars, tmplVars, reduceVars>>

\* if adapter.lastResort != nil { return toolSuccessJSON(marshal(lastResort())) }
FitFallback ==
    /\ fpc = "lastResort"
    /\ hasLastResort
    /\ LET metadata == LastResort(fkind, result)
       IN  /\ out' = metadata
           /\ calls' = Append(calls, Call("lastResort", 0, TRUE, MarshalLen(metadata)))
    /\ retAt' = "fallback"
    /\ fpc' = "done"
    /\ UNCHANGED <<fkind, hasLastResort, maxSize, input, result, truncIdx, iter>>
    /\ UNCHANGED <<dedupVars, hashVars, ctxVars, projVars, searchVars, tmplVars, reduceVars>>

\* The defensive tail: mark the result truncated and return it as it is.
FitBestEffort ==
    /\ fpc = "lastResort"
    /\ ~hasLastResort
    /\ result' = MarkTruncated(result)
    /\ out' = MarkTruncated(result)
    /\ retAt' = "bestEffort"
    /\ fpc' = "done"
    /\ UNCHANGED <<fkind, hasLastResort, maxSize, input, truncIdx, iter, calls>>
    /\ UNCHANGED <<dedupVars, hashVars, ctxVars, projVars, searchVars, tmplVars, reduceVars>>

(***************************************************************************)
(* The results fitResult is given                                          *)
(***************************************************************************)
\* A short body; a long body of 3-byte runes; a long ASCII body; a short
\* body beside a large extension field.
FitEntries ==
    { Entry(Str(1, 30, 0), 40), Entry(Str(3, 699, 0), 40),
      Entry(Str(1, 120, 0), 40), Entry(Str(1, 30, 0), 900) }

RowEntries == { Entry(Str(1, 0, 0), 60), Entry(Str(1, 0, 0), 900) }

\* The neighbours of a context window: a short and a long body.
SideEntries == { Entry(Str(1, 30, 0), 40), Entry(Str(3, 699, 0), 40) }

SeqsUpTo(S, n) == UNION { [1..k -> S] : k \in 0..n }

SearchResults ==
    { [messages |-> l, total_results |-> Len(l), limit |-> MaxEntries, offset |-> 0,
       has_more |-> FALSE] : l \in SeqsUpTo(FitEntries, MaxEntries) }

DedupResults ==
    { [deduplicated |-> l, total_raw_results |-> Len(l), unique_in_batch |-> Len(l),
       limit |-> MaxEntries, offset |-> 0, has_more |-> FALSE] :
      l \in SeqsUpTo(FitEntries, MaxEntries) }

TargetOf(e) ==
    [id |-> "target-id", timestamp |-> "t0", index |-> "idx1",
     body |-> e.body, rest |-> e.rest]

ContextResults ==
    LET plain == { [target_message |-> TargetOf(t), messages_before |-> b,
                    messages_after |-> a, context_incomplete |-> inc] :
                   t \in FitEntries, b \in SeqsUpTo(SideEntries, MaxSide),
                   a \in SeqsUpTo(SideEntries, MaxSide), inc \in BOOLEAN }
    IN  { r \in plain : r["context_incomplete"] =
                          (Len(r["messages_before"]) < MaxSide
                           \/ Len(r["messages_after"]) < MaxSide) }
        \cup { SetKey(r, "before_error", "search failed") :
               r \in { q \in plain : q["messages_before"] = <<>>
                                     /\ q["context_incomplete"] } }

TemplateResults ==
    { [templates |-> l, total_results |-> Len(l), template_count |-> Len(l)] :
      l \in SeqsUpTo(FitEntries, MaxEntries) }

AggregateResults ==
    { [rows |-> l, total_rows |-> Len(l), metadata |-> "effective_timerange"] :
      l \in SeqsUpTo(RowEntries, MaxEntries) }

StubResults == { [payload |-> n] : n \in StubSizes }

Budgets == {-1, 0, 100, 250, 600, 1500, 100000}

FitIdle ==
    /\ fkind = "none" /\ hasLastResort = FALSE /\ maxSize = 0 /\ input = NoOut
    /\ result = NoOut /\ fpc = "idle" /\ truncIdx = 0 /\ iter = 0 /\ out = NoOut
    /\ retAt = "none" /\ calls = <<>>

FitInit ==
    /\ \/ fkind = "search"    /\ result \in SearchResults    /\ hasLastResort = TRUE
       \/ fkind = "dedup"     /\ result \in DedupResults     /\ hasLastResort = TRUE
       \/ fkind = "context"   /\ result \in ContextResults   /\ hasLastResort = TRUE
       \/ fkind = "template"  /\ result \in TemplateResults  /\ hasLastResort = TRUE
       \/ fkind = "aggregate" /\ result \in AggregateResults /\ hasLastResort = TRUE
       \/ fkind = "stub"      /\ result \in StubResults      /\ hasLastResort \in BOOLEAN
    /\ maxSize \in Budgets
    /\ input = result
    /\ fpc = "enter"
    /\ truncIdx = 0
    /\ iter = 0
    /\ out = NoOut
    /\ retAt = "none"
    /\ calls = <<>>

(***************************************************************************)
(* fitResult on results whose bodies lie just above a truncation length    *)
(***************************************************************************)
\* A short body; bodies of 505 and 105 bytes; 17 runes of 3 bytes.
BodyEntries ==
    { Entry(Str(1, 30, 0), 40), Entry(Str(1, 505, 0), 40), Entry(Str(1, 105, 0), 40),
      Entry(Str(3, 51, 0), 40) }

BodyLists == SeqsUpTo(BodyEntries, MaxSide)

BodyInit ==
    /\ \/ /\ fkind = "search"
          /\ result \in { [messages |-> l, total_results |-> Len(l), limit |-> MaxSide,
                            offset |-> 0, has_more |-> FALSE] : l \in BodyLists }
       \/ /\ fkind = "dedup"
          /\ result \in { [deduplicated |-> l, total_raw_results |-> Len(l),
                            unique_in_batch |-> Len(l), limit |-> MaxSide, offset |-> 0,
                            has_more |-> FALSE] : l \in BodyLists }
       \/ /\ fkind = "context"
          /\ result \in { [target_message |-> TargetOf(t), messages_before |-> l,
                            messages_after |-> <<>>,
                            context_incomplete |-> TRUE] :
                           t \in BodyEntries, l \in BodyLists }
       \/ /\ fkind = "template"
          /\ result \in { [templates |-> l, total_results |-> Len(l),
                            template_count |-> Len(l)] : l \in BodyLists }
    /\ hasLastResort = TRUE
    /\ maxSize \in {100, 400, 100000}
    /\ input = result
    /\ fpc = "enter"
    /\ truncIdx = 0
    /\ iter = 0
    /\ out = NoOut
    /\ retAt = "none"
    /\ calls = <<>>

(***************************************************************************)
(* tools.getLogContextHandler: the context window assembler                *)
(***************************************************************************)
contextResultMaxSize == 50000

contextOverfetchMultiplierTwo == 3 - 1

contextOverfetchMultiplier == 3

contextMaxFetchLimitPerSide == 1501

\* if before > 500 { before = 500 }
contextMaxPerSide == 500

\* A numeric argument as the MCP request carries it: absent, an integer of
\* the int32 range, a number outside that range, or something
\* getStrictNonNegativeIntParam does not take for an integer (a fraction,
\* NaN, a string).
AbsentArg == [kind |-> "absent"]
NotIntArg == [kind |-> "notInt"]
OutOfRangeArg == [kind |-> "outOfRange"]
IntArg(n) == [kind |-> "int", v |-> n]

getStrictNonNegativeIntParam(arg, key, defaultVal) ==
    CASE arg.kind = "absent" -> [err |-> "", value |-> defaultVal]
      [] arg.kind = "notInt" -> [err |-> key \o " must be an integer", value |-> 0]
      [] arg.kind = "outOfRange" -> [err |-> key \o " is out of range", value |-> 0]
      [] arg.kind = "int" ->
            IF arg.v < 0
            THEN [err |-> key \o " must be >= 0", value |-> 0]
            ELSE [err |-> "", value |-> arg.v]

\* strings.TrimSpace on the tokens of a comma-separated fields argument.
TrimSpace(tok) == IF tok = " level" THEN "level" ELSE tok

\* The tokens strings.Split(fields, ",") yields; <<>> stands for fields == "".
FieldSetOf(tokens) == { TrimSpace(tokens[k]) : k \in 1..Len(tokens) }

filterMessageExtraFields(extra, fieldSet) ==
    [k \in DOMAIN extra \cap fieldSet |-> extra[k]]

FilterWrapperExtra(mw, fieldSet) ==
    [mw EXCEPT !.Message.Extra = filterMessageExtraFields(@, fieldSet)]

Reverse(s) == [k \in 1..Len(s) |-> s[Len(s) + 1 - k]]

filterOutContextMessageID(msgs, messageID) ==
    SelectSeq(msgs, LAMBDA mw : mw.Message.ID # messageID)

RECURSIVE dedupByIDLoop(_, _, _)
dedupByIDLoop(msgs, seenIDs, deduplicated) ==
    IF msgs = <<>> THEN deduplicated
    ELSE LET mw == Head(msgs)
         IN  IF mw.Message.ID = ""
             THEN dedupByIDLoop(Tail(msgs), seenIDs, Append(deduplicated, mw))
             ELSE IF mw.Message.ID \in seenIDs
                  THEN dedupByIDLoop(Tail(msgs), seenIDs, deduplicated)
                  ELSE dedupByIDLoop(Tail(msgs), seenIDs \cup {mw.Message.ID},
                                     Append(deduplicated, mw))

deduplicateContextMessagesKeepAll(msgs) == msgs

deduplicateContextMessagesByID(msgs) == dedupByIDLoop(msgs, {}, <<>>)

removeContextOverlapNone(after, before) == after

removeContextOverlapByID(after, before) ==
    IF Len(after) = 0 \/ Len(before) = 0 THEN after
    ELSE LET beforeIDs == { before[k].Message.ID : k \in 1..Len(before) } \ {""}
         IN  IF beforeIDs = {} THEN after
             ELSE SelectSeq(after, LAMBDA mw : mw.Message.ID = ""
                                               \/ mw.Message.ID \notin beforeIDs)

\* messages[:n] when len(messages) > n
TruncateTo(msgs, n) == IF Len(msgs) > n THEN SubSeq(msgs, 1, n) ELSE msgs

fetchLimit(n) == Min(n * contextOverfetchMultiplier + 1, contextMaxFetchLimitPerSide)

contextIncompleteBoth(nBefore, nAfter, wantBefore, wantAfter) ==
    nBefore < wantBefore /\ nAfter < wantAfter

\* len(messagesBefore) < before || len(messagesAfter) < after
contextIncomplete(nBefore, nAfter, wantBefore, wantAfter) ==
    nBefore < wantBefore \/ nAfter < wantAfter

\* ---- the upstream store, as far as the handler can tell
TargetID == "target"

\* The ids the upstream can report; "" is a message whose _id is missing or
\* not a string (messageFromMap leaves ID empty).
CtxIDs == {TargetID, "", "a", "b"}

CtxBody(id) == IF id = "b" THEN Str(3, 60000, 0) ELSE Str(1, 30, 0)

CtxExtra(id) ==
    CASE id = ""  -> [index |-> "big"]
      [] id = "a" -> [level |-> "x"]
      [] OTHER    -> NoExtra

CtxWrapper(id) ==
    MessageWrapper(Message(id, "t0", "hostA", CtxBody(id), CtxExtra(id)), "idx1")

CtxBatches ==
    { [k \in 1..Len(ids) |-> CtxWrapper(ids[k])] : ids \in SeqsUpTo(CtxIDs, MaxFetch) }

\* What c.Search can return for a query with the given limit.
SearchResponses(limit) ==
    { [err |-> "", Messages |-> b] : b \in { q \in CtxBatches : Len(q) <= limit } }
    \cup { [err |-> "search failed", Messages |-> <<>>] }

UpstreamCall(op, order, limit, ok) ==
    [op |-> op, order |-> order, limit |-> limit, ok |-> ok]

RecordSideErrorAlways(r, key, err) == SetKey(r, key, err)

RecordSideErrorNever(r, key, err) == r

\* if err != nil { result[key] = err.Error() }
RecordSideError(r, key, err) == IF err # "" THEN SetKey(r, key, err) ELSE r

\* ---- the serialized size of a wrapper, as fitResult measures it
ValLen(v) == IF v = "big" THEN 60000 ELSE 10

ExtraLen(extra) ==
    SumSeq([n \in 1..Len(KeyOrder) |->
               IF KeyOrder[n] \in DOMAIN extra THEN ValLen(extra[KeyOrder[n]]) ELSE 0])

CtxSized(mw) ==
    [id |-> mw.Message.ID, timestamp |-> mw.Message.Timestamp, index |-> mw.Index,
     body |-> mw.Message.Message, rest |-> 40 + ExtraLen(mw.Message.Extra)]

SizedList(msgs) == [k \in 1..Len(msgs) |-> CtxSized(msgs[k])]

SizedContext(r) ==
    [k \in DOMAIN r |->
        CASE k = "target_message" -> CtxSized(r[k])
          [] k \in {"messages_before", "messages_after"} -> SizedList(r[k])
          [] OTHER -> r[k]]

\* ---- the requests
\* (before, after) as requested: small windows, the defaults, and windows
\* beyond the cap of 500.
CtxWants ==
    { <<IntArg(b), IntArg(a)>> : b \in 0..2, a \in 0..2 }
    \cup { <<AbsentArg, AbsentArg>>, <<IntArg(600), IntArg(1)>>, <<IntArg(1), IntArg(600)>>,
           <<IntArg(3), IntArg(3)>> }

CtxFields == {<<>>, <<"message", " level">>}

\* The before/after pairs that are also requested with a fields argument.
CtxFieldWants ==
    { <<AbsentArg, AbsentArg>>, <<IntArg(1), IntArg(1)>>, <<IntArg(2), IntArg(0)>> }

CtxValidRequests ==
    { [client |-> TRUE, message_id |-> TargetID, index |-> "idx1", before |-> w[1],
       after |-> w[2], fields |-> <<>>] : w \in CtxWants }
    \cup { [client |-> TRUE, message_id |-> TargetID, index |-> "idx1", before |-> w[1],
            after |-> w[2], fields |-> f] : w \in CtxFieldWants, f \in CtxFields }

CtxBaseRequest ==
    [client |-> TRUE, message_id |-> TargetID, index |-> "idx1", before |-> IntArg(1),
     after |-> IntArg(1), fields |-> <<>>]

CtxInvalidRequests ==
    { [CtxBaseRequest EXCEPT !.client = FALSE],
      [CtxBaseRequest EXCEPT !.message_id = ""],
      [CtxBaseRequest EXCEPT !.index = ""] }
    \cup { [CtxBaseRequest EXCEPT !.before = v] : v \in {NotIntArg, IntArg(-1), OutOfRangeArg} }
    \cup { [CtxBaseRequest EXCEPT !.after = v] : v \in {NotIntArg, IntArg(-1), OutOfRangeArg} }

\* The first failing check of lines 45-75, "" when the arguments pass.
ArgsError(req) ==
    LET b == getStrictNonNegativeIntParam(req.before, "before", 5)
        a == getStrictNonNegativeIntParam(req.after, "after", 5)
    IN  IF ~req.client THEN "no Graylog credentials: Authorization header required"
        ELSE IF req.message_id = "" THEN "'message_id' parameter is required"
        ELSE IF req.index = "" THEN "'index' parameter is required"
        ELSE IF b.err # "" THEN b.err
        ELSE a.err

NoTarget == [none |-> TRUE]

CtxIdle ==
    /\ creq = NoTarget /\ ctxBefore = 0 /\ ctxAfter = 0 /\ ctxTarget = NoTarget
    /\ upstream = <<>> /\ beforeBatch = <<>> /\ afterBatch = <<>>
    /\ messagesBefore = <<>> /\ messagesAfter = <<>> /\ cresult = NoTarget
    /\ cerr = "" /\ cpc = "idle"

CtxInit ==
    /\ creq \in CtxValidRequests \cup CtxInvalidRequests
    /\ ctxBefore = 0 /\ ctxAfter = 0 /\ ctxTarget = NoTarget
    /\ upstream = <<>> /\ beforeBatch = <<>> /\ afterBatch = <<>>
    /\ messagesBefore = <<>> /\ messagesAfter = <<>> /\ cresult = NoTarget
    /\ cerr = "" /\ cpc = "args"

\* Lines 45-75: a failing argument check returns toolError at once.
CtxReject ==
    /\ cpc = "args"
    /\ ArgsError(creq) # ""
    /\ cerr' = ArgsError(creq)
    /\ cpc' = "done"
    /\ UNCHANGED <<creq, ctxBefore, ctxAfter, ctxTarget, upstream, beforeBatch,
                   afterBatch, messagesBefore, messagesAfter, cresult>>
    /\ UNCHANGED <<dedupVars, hashVars, fitVars, projVars, searchVars, tmplVars, reduceVars>>

\* Lines 45-82 when every check passes: before and after are capped at 500.
CtxAccept ==
    /\ cpc = "args"
    /\ ArgsError(creq) = ""
    /\ ctxBefore' = Min(getStrictNonNegativeIntParam(creq.before, "before", 5).value,
                        contextMaxPerSide)
    /\ ctxAfter' = Min(getStrictNonNegativeIntParam(creq.after, "after", 5).value,
                       contextMaxPerSide)
    /\ cpc' = "getTarget"
    /\ UNCHANGED <<creq, ctxTarget, upstream, beforeBatch, afterBatch, messagesBefore,
                   messagesAfter, cresult, cerr>>
    /\ UNCHANGED <<dedupVars, hashVars, fitVars, projVars, searchVars, tmplVars, reduceVars>>

\* Lines 85-91: c.GetMessage fails.
CtxGetTargetFails ==
    /\ cpc = "getTarget"
    /\ upstream' = Append(upstream, UpstreamCall("GetMessage", "", 0, FALSE))
    /\ cerr' = "Failed to get message"
    /\ cpc' = "done"
    /\ UNCHANGED <<creq, ctxBefore, ctxAfter, ctxTarget, beforeBatch, afterBatch,
                   messagesBefore, messagesAfter, cresult>>
    /\ UNCHANGED <<dedupVars, hashVars, fitVars, projVars, searchVars, tmplVars, reduceVars>>

\* Lines 85-97: c.GetMessage returns the target.
CtxGetTarget ==
    /\ cpc = "getTarget"
    /\ upstream' = Append(upstream, UpstreamCall("GetMessage", "", 0, TRUE))
    /\ ctxTarget' = CtxWrapper(creq.message_id)
    /\ cpc' = "before"
    /\ UNCHANGED <<creq, ctxBefore, ctxAfter, beforeBatch, afterBatch, messagesBefore,
                   messagesAfter, cresult, cerr>>
    /\ UNCHANGED <<dedupVars, hashVars, fitVars, projVars, searchVars, tmplVars, reduceVars>>

\* Lines 99-128: the descending search and the assembly of messagesBefore.
CtxSearchBefore ==
    /\ cpc = "before"
    /\ IF ctxBefore > 0
       THEN \E resp \in SearchResponses(fetchLimit(ctxBefore)) :
               /\ upstream' = Append(upstream,
                                     UpstreamCall("Search", "desc", fetchLimit(ctxBefore),
                                                  resp.err = ""))
               /\ beforeBatch' = resp.Messages
               /\ cresult' = RecordSideError([k \in {} |-> ""], "before_error", resp.err)
               /\ messagesBefore' =
                     TruncateTo(
                         deduplicateContextMessagesByID(
                             Reverse(IF resp.err # "" THEN <<>>
                                     ELSE filterOutContextMessageID(resp.Messages,
                                                                    creq.message_id))),
                         ctxBefore)
       ELSE /\ messagesBefore' = <<>>
            /\ cresult' = [k \in {} |-> ""]
            /\ UNCHANGED <<upstream, beforeBatch>>
    /\ cpc' = "after"
    /\ UNCHANGED <<creq, ctxBefore, ctxAfter, ctxTarget, afterBatch, messagesAfter, cerr>>
    /\ UNCHANGED <<dedupVars, hashVars, fitVars, projVars, searchVars, tmplVars, reduceVars>>

\* Lines 130-154: the ascending search and the assembly of messagesAfter.
\* beforeResp is out of scope here.
CtxSearchAfter ==
    /\ cpc = "after"
    /\ IF ctxAfter > 0
       THEN \E resp \in SearchResponses(fetchLimit(ctxAfter)) :
               /\ upstream' = Append(upstream,
                                     UpstreamCall("Search", "asc", fetchLimit(ctxAfter),
                                                  resp.err = ""))
               /\ afterBatch' = resp.Messages
               /\ cresult' = RecordSideError(cresult, "after_error", resp.err)
               /\ messagesAfter' =
                     TruncateTo(
                         removeContextOverlapByID(
                             deduplicateContextMessagesByID(
                                 IF resp.err # "" THEN <<>>
                                 ELSE filterOutContextMessageID(resp.Messages,
                                                                creq.message_id)),
                             messagesBefore),
                         ctxAfter)
       ELSE /\ messagesAfter' = <<>>
            /\ UNCHANGED <<upstream, afterBatch, cresult>>
    /\ beforeBatch' = <<>>
    /\ cpc' = "build"
    /\ UNCHANGED <<creq, ctxBefore, ctxAfter, ctxTarget, messagesBefore, cerr>>
    /\ UNCHANGED <<dedupVars, hashVars, fitVars, projVars, searchVars, tmplVars, reduceVars>>

\* Lines 156-177: the field filter, the result map, and the call of
\* fitContextResult(result, contextResultMaxSize).  afterResp is out of
\* scope here.
CtxBuildResult ==
    /\ cpc = "build"
    /\ LET fieldSet == FieldSetOf(creq.fields)
           Filtered(l) == IF creq.fields # <<>>
                          THEN [k \in 1..Len(l) |-> FilterWrapperExtra(l[k], fieldSet)]
                          ELSE l
           tgt == IF creq.fields # <<>> THEN FilterWrapperExtra(ctxTarget, fieldSet)
                  ELSE ctxTarget
           r == [target_message |-> tgt,
                 messages_before |-> Filtered(messagesBefore),
                 messages_after |-> Filtered(messagesAfter),
                 context_incomplete |->
                     contextIncomplete(Len(messagesBefore), Len(messagesAfter),
                                       ctxBefore, ctxAfter)] @@ cresult
       IN  /\ messagesBefore' = Filtered(messagesBefore)
           /\ messagesAfter' = Filtered(messagesAfter)
           /\ ctxTarget' = tgt
           /\ cresult' = r
           /\ result' = SizedContext(r)
           /\ input' = SizedContext(r)
    /\ fkind' = "context"
    /\ hasLastResort' = TRUE
    /\ maxSize' = contextResultMaxSize
    /\ fpc' = "enter"
    /\ cpc' = "fit"
    /\ afterBatch' = <<>>
    /\ UNCHANGED <<truncIdx, iter, out, retAt, calls>>
    /\ UNCHANGED <<creq, ctxBefore, ctxAfter, upstream, beforeBatch, cerr>>
    /\ UNCHANGED <<dedupVars, hashVars, projVars, searchVars, tmplVars, reduceVars>>

(***************************************************************************)
(* Field filtering: Message.ToFilteredMap (ungrouped results),             *)
(* filterDedupResultFields (dedup groups), filterMessageExtraFields        *)
(* (context windows), each followed by the shape's serialization           *)
(***************************************************************************)
CoreKeys == {"_id", "timestamp", "source", "message"}

CoreMap(m) ==
    [k \in CoreKeys |->
        CASE k = "_id" -> m.ID
          [] k = "timestamp" -> m.Timestamp
          [] k = "source" -> m.Source
          [] k = "message" -> m.Message]

\* The extension fields of a serialized message map.
ExtensionsOf(map) == [k \in DOMAIN map \ CoreKeys |-> map[k]]

\* executeSearch's fieldList: the trimmed tokens of params.Fields.
FieldListOf(tokens) == [k \in 1..Len(tokens) |-> TrimSpace(tokens[k])]

ToFilteredMapAll(m, fields) == m.Extra @@ CoreMap(m)

ToFilteredMap(m, fields) ==
    IF Len(fields) = 0
    THEN m.Extra @@ CoreMap(m)
    ELSE [k \in DOMAIN m.Extra \cap Range(fields) |-> m.Extra[k]] @@ CoreMap(m)

\* Message.MarshalJSON
MessageJSON(m) == m.Extra @@ CoreMap(m)

filterDedupResultFieldsNone(res, fieldList) == res

filterDedupResultFields(res, fieldList) ==
    [g \in 1..Len(res) |->
        [res[g] EXCEPT !.Message.Extra = [k \in DOMAIN @ \cap Range(fieldList) |-> @[k]]]]

\* The "message" object DedupResult.MarshalJSON writes: no _id.
DedupMessageJSON(d) ==
    d.Message.Extra
    @@ [k \in {"timestamp", "source", "message"} |-> CoreMap(d.Message)[k]]

ProjFieldTokens ==
    { <<>>, <<"level">>, <<"message", " level">>, <<"index">>, <<"index", "level">>,
      <<"source">>, <<"">> }

ProjMessages ==
    { MessageWrapper(Message("id1", "t1", src, "A", extra), "idx1") :
        src \in Sources, extra \in Extras }

NoMap == [none |-> TRUE]

ProjIdle ==
    /\ pmsg = NoMap /\ pfields = <<>> /\ pFlat = NoMap /\ pGroup = NoMap
    /\ pCtx = NoMap /\ pdone = {"idle"}

ProjInit ==
    /\ pmsg \in ProjMessages
    /\ pfields \in ProjFieldTokens
    /\ pFlat = NoMap /\ pGroup = NoMap /\ pCtx = NoMap
    /\ pdone = {}

\* executeSearch, ungrouped: wrapper.Message.ToFilteredMap(fieldList)
ProjectFlat ==
    /\ "idle" \notin pdone
    /\ "flat" \notin pdone
    /\ pFlat' = ToFilteredMap(pmsg.Message, FieldListOf(pfields))
    /\ pdone' = pdone \cup {"flat"}
    /\ UNCHANGED <<pmsg, pfields, pGroup, pCtx>>
    /\ UNCHANGED <<dedupVars, hashVars, fitVars, ctxVars, searchVars, tmplVars, reduceVars>>

\* executeSearch, deduplicated: filterDedupResultFields when a field list
\* is given, then DedupResult.MarshalJSON.
ProjectGroup ==
    /\ "idle" \notin pdone
    /\ "group" \notin pdone
    /\ LET fieldList == FieldListOf(pfields)
           res == <<DedupResult(pmsg)>>
           kept == IF Len(fieldList) > 0 THEN filterDedupResultFields(res, fieldList)
                   ELSE res
       IN  pGroup' = DedupMessageJSON(kept[1])
    /\ pdone' = pdone \cup {"group"}
    /\ UNCHANGED <<pmsg, pfields, pFlat, pCtx>>
    /\ UNCHANGED <<dedupVars, hashVars, fitVars, ctxVars, searchVars, tmplVars, reduceVars>>

\* getLogContextHandler: filterMessageExtraFields when fields != "", then
\* Message.MarshalJSON.
ProjectContext ==
    /\ "idle" \notin pdone
    /\ "context" \notin pdone
    /\ LET kept == IF pfields # <<>> THEN FilterWrapperExtra(pmsg, FieldSetOf(pfields))
                   ELSE pmsg
       IN  pCtx' = MessageJSON(kept.Message)
    /\ pdone' = pdone \cup {"context"}
    /\ UNCHANGED <<pmsg, pfields, pFlat, pGroup>>
    /\ UNCHANGED <<dedupVars, hashVars, fitVars, ctxVars, searchVars, tmplVars, reduceVars>>

(***************************************************************************)
(* tools.searchLogsHandler and tools.executeSearch                         *)
(***************************************************************************)
dedupFetchMultiplier == 3

maxSearchLimit == 10000

defaultSearchLimit == 50

defaultMaxResultSize == 50000

maxMessageIDsSix == 5 + 1

\* dedup.CapMessageIDs(dedupResults, 5)
maxMessageIDs == 5

\* The message kinds the upstream reports: a short body with a small
\* extension field, a long body, a short body with a large extension field.
SearchKinds ==
    { [body |-> Str(1, 30, 0), extra |-> [level |-> "x"]],
      [body |-> Str(1, 120, 0), extra |-> NoExtra],
      [body |-> Str(1, 30, 0), extra |-> [level |-> "big"]] }

\* ids are the positions in the batch
SearchBatchOf(ks) ==
    [k \in 1..Len(ks) |->
        MessageWrapper(Message(k, "t1", "hostA", ks[k].body, ks[k].extra), "idx1")]

\* Batches of many copies of one message, alone or followed by another one.
RepeatedKinds ==
    LET short == [body |-> Str(1, 30, 0), extra |-> [level |-> "x"]]
        long  == [body |-> Str(1, 120, 0), extra |-> NoExtra]
    IN  { [k \in 1..6 |-> short], [k \in 1..7 |-> short],
          [k \in 1..7 |-> IF k <= 6 THEN long ELSE short] }

SearchBatches(limit) ==
    { SearchBatchOf(ks) : ks \in SeqsUpTo(SearchKinds, Min(limit, MaxFetch)) }
    \cup { SearchBatchOf(ks) : ks \in { q \in RepeatedKinds : Len(q) <= limit } }

\* What client.Search can return: an error, or at most params.Limit messages
\* and the total number of matches (no smaller than offset + len(messages)).
SearchReplies(params) ==
    { [err |-> "", Messages |-> b, TotalResults |-> params.Offset + Len(b) + more] :
        b \in SearchBatches(params.Limit), more \in {0, 4} }
    \cup { [err |-> "Search failed", Messages |-> <<>>, TotalResults |-> 0] }

SearchFields == {<<>>, <<"source">>}

SearchValidRequests ==
    { [client |-> TRUE, query |-> "*", from |-> "", to |-> "", limit |-> l,
       offset |-> o, range |-> AbsentArg, truncate_message |-> t,
       max_result_size |-> m, fields |-> f, deduplicate |-> d] :
        l \in {AbsentArg, IntArg(1), IntArg(2)},
        o \in {AbsentArg, IntArg(1), IntArg(3)},
        t \in {AbsentArg, IntArg(50)},
        m \in {AbsentArg, IntArg(0), IntArg(400)},
        f \in SearchFields,
        d \in BOOLEAN }

SearchBaseRequest ==
    [client |-> TRUE, query |-> "*", from |-> "", to |-> "", limit |-> IntArg(1),
     offset |-> AbsentArg, range |-> AbsentArg, truncate_message |-> AbsentArg,
     max_result_size |-> AbsentArg, fields |-> <<>>, deduplicate |-> FALSE]

BadArgs == {NotIntArg, IntArg(-1), OutOfRangeArg}

SearchInvalidRequests ==
    { [SearchBaseRequest EXCEPT !.client = FALSE],
      [SearchBaseRequest EXCEPT !.query = ""],
      [SearchBaseRequest EXCEPT !.from = "2024-01-15T10:00:00.000Z"],
      [SearchBaseRequest EXCEPT !.to = "2024-01-15T10:00:00.000Z"] }
    \cup { [SearchBaseRequest EXCEPT !.limit = v] : v \in BadArgs }
    \cup { [SearchBaseRequest EXCEPT !.range = v] : v \in BadArgs }
    \cup { [SearchBaseRequest EXCEPT !.offset = v] : v \in BadArgs }
    \cup { [SearchBaseRequest EXCEPT !.truncate_message = v] : v \in BadArgs }
    \cup { [SearchBaseRequest EXCEPT !.max_result_size = v] : v \in BadArgs }

\* searchLogsHandler's checks in their order; "" when the arguments pass.
RECURSIVE FirstError(_)
FirstError(errs) ==
    IF errs = <<>> THEN ""
    ELSE IF Head(errs) # "" THEN Head(errs) ELSE FirstError(Tail(errs))

SearchArgsErrorQueryOnly(req) ==
    IF req.query = "" THEN "'query' parameter is required" ELSE ""

SearchArgsError(req) ==
    FirstError(<<
        IF req.query = "" THEN "'query' parameter is required" ELSE "",
        IF (req.from = "") # (req.to = "") THEN "'from' and 'to' must be used together"
        ELSE "",
        getStrictNonNegativeIntParam(req.limit, "limit", defaultSearchLimit).err,
        getStrictNonNegativeIntParam(req.range, "range", 0).err,
        getStrictNonNegativeIntParam(req.offset, "offset", 0).err,
        getStrictNonNegativeIntParam(req.truncate_message, "truncate_message", 0).err,
        getStrictNonNegativeIntParam(req.max_result_size, "max_result_size",
                                     defaultMaxResultSize).err,
        IF ~req.client THEN "no Graylog credentials: Authorization header required"
        ELSE "" >>)

\* limit as searchLogsHandler passes it on: capped at 10000, 50 when < 1.
RequestedLimit(req) ==
    LET limit == getStrictNonNegativeIntParam(req.limit, "limit", defaultSearchLimit).value
        capped == IF limit > maxSearchLimit THEN maxSearchLimit ELSE limit
    IN  IF capped < 1 THEN defaultSearchLimit ELSE capped

OriginalOffset(req) == getStrictNonNegativeIntParam(req.offset, "offset", 0).value

MaxResultSizeOf(req) ==
    getStrictNonNegativeIntParam(req.max_result_size, "max_result_size",
                                 defaultMaxResultSize).value

\* The SearchParams executeSearch sends (lines 131-139).
UpstreamParams(req) ==
    [Limit |-> IF req.deduplicate
               THEN Min((OriginalOffset(req) + RequestedLimit(req)) * dedupFetchMultiplier,
                        maxSearchLimit)
               ELSE RequestedLimit(req),
     Offset |-> IF req.deduplicate THEN 0 ELSE OriginalOffset(req),
     Fields |-> req.fields,
     TruncateMessage |->
         getStrictNonNegativeIntParam(req.truncate_message, "truncate_message", 0).value]

\* Lines 160-165: truncate_message applied to every message of the batch.
TruncateBatch(msgs, truncate) ==
    IF truncate > 0
    THEN [k \in 1..Len(msgs) |->
             [msgs[k] EXCEPT !.Message.Message = truncateString(@, truncate)]]
    ELSE msgs

SliceFromStart(groups, offset, limit) ==
    IF Len(groups) > limit THEN SubSeq(groups, 1, limit) ELSE groups

\* Lines 176-186: dedupResults[offset:] (nil when offset is beyond the
\* groups), then [:requestedLimit].
SliceGroups(groups, offset, limit) ==
    LET fromOffset == IF offset > 0
                      THEN (IF offset < Len(groups)
                            THEN SubSeq(groups, offset + 1, Len(groups))
                            ELSE <<>>)
                      ELSE groups
    IN  IF Len(fromOffset) > limit THEN SubSeq(fromOffset, 1, limit) ELSE fromOffset

\* ---- the serialized size of the entries, as fitResult measures it
SizedGroup(d) ==
    [body |-> d.Message.Message,
     rest |-> 40 + ExtraLen(d.Message.Extra) + 10 * Len(d.MessageIDs),
     count |-> d.Count, message_ids |-> d.MessageIDs]

SizedFlat(e) ==
    [body |-> e.message["message"],
     rest |-> 40 + ExtraLen(ExtensionsOf(e.message)),
     id |-> e.message["_id"]]

SizedSearch(r) ==
    [k \in DOMAIN r |->
        CASE k = "deduplicated" -> [g \in 1..Len(r[k]) |-> SizedGroup(r[k][g])]
          [] k = "messages" -> [n \in 1..Len(r[k]) |-> SizedFlat(r[k][n])]
          [] OTHER -> r[k]]

SearchIdle ==
    /\ sreq = NoMap /\ sparams = NoMap /\ sresp = NoMap /\ uniqueCount = 0
    /\ sresult = NoMap /\ serr = "" /\ supstream = <<>> /\ spc = "idle"

SearchInit ==
    /\ sreq \in SearchValidRequests \cup SearchInvalidRequests
    /\ sparams = NoMap /\ sresp = NoMap /\ uniqueCount = 0
    /\ sresult = NoMap /\ serr = "" /\ supstream = <<>> /\ spc = "args"

\* searchLogsHandler: a failing argument check returns toolError at once.
SearchReject ==
    /\ spc = "args"
    /\ SearchArgsError(sreq) # ""
    /\ serr' = SearchArgsError(sreq)
    /\ spc' = "done"
    /\ UNCHANGED <<sreq, sparams, sresp, uniqueCount, sresult, supstream>>
    /\ UNCHANGED <<dedupVars, hashVars, fitVars, ctxVars, projVars, tmplVars, reduceVars>>

\* searchLogsHandler passes the checks; executeSearch prepares the query.
SearchAccept ==
    /\ spc = "args"
    /\ SearchArgsError(sreq) = ""
    /\ sparams' = UpstreamParams(sreq)
    /\ spc' = "search"
    /\ UNCHANGED <<sreq, sresp, uniqueCount, sresult, serr, supstream>>
    /\ UNCHANGED <<dedupVars, hashVars, fitVars, ctxVars, projVars, tmplVars, reduceVars>>

\* Lines 141-147: client.Search fails.
SearchFails ==
    /\ spc = "search"
    /\ \E resp \in SearchReplies(sparams) :
          /\ resp.err # ""
          /\ sresp' = resp
          /\ serr' = resp.err
    /\ supstream' = Append(supstream, UpstreamCall("Search", "", sparams.Limit, FALSE))
    /\ spc' = "done"
    /\ UNCHANGED <<sreq, sparams, uniqueCount, sresult>>
    /\ UNCHANGED <<dedupVars, hashVars, fitVars, ctxVars, projVars, tmplVars, reduceVars>>

\* The call of fitSearchResult(result, maxResultSize, isDedup).
HandToFit(r, isDedup) ==
    /\ sresult' = r
    /\ result' = SizedSearch(r)
    /\ input' = SizedSearch(r)
    /\ fkind' = IF isDedup THEN "dedup" ELSE "search"
    /\ hasLastResort' = TRUE
    /\ maxSize' = MaxResultSizeOf(sreq)
    /\ fpc' = "enter"
    /\ UNCHANGED <<truncIdx, iter, out, retAt, calls>>

\* Lines 141-201: client.Search returns a non-empty batch and deduplicate is
\* set.
SearchDedup ==
    /\ spc = "search"
    /\ sreq.deduplicate
    /\ \E resp \in SearchReplies(sparams) :
          /\ resp.err = ""
          /\ Len(resp.Messages) > 0
          /\ sresp' = resp
          /\ LET requestedLimit == RequestedLimit(sreq)
                 originalOffset == OriginalOffset(sreq)
                 hasMoreFromPagination == originalOffset + requestedLimit < resp.TotalResults
                 fieldList == FieldListOf(sparams.Fields)
                 msgs == TruncateBatch(resp.Messages, sparams.TruncateMessage)
                 all == CapMessageIDs(Deduplicate(msgs, <<>>), maxMessageIDs)
                 page == SliceGroups(all, originalOffset, requestedLimit)
                 hasMore == hasMoreFromPagination
                            \/ Len(all) > originalOffset + Len(page)
                 shown == IF Len(fieldList) > 0
                          THEN filterDedupResultFields(page, fieldList) ELSE page
             IN  /\ uniqueCount' = Len(all)
                 /\ HandToFit([deduplicated |-> shown,
                               total_raw_results |-> resp.TotalResults,
                               unique_in_batch |-> Len(all),
                               limit |-> requestedLimit,
                               offset |-> originalOffset,
                               has_more |-> hasMore], TRUE)
    /\ supstream' = Append(supstream, UpstreamCall("Search", "", sparams.Limit, TRUE))
    /\ spc' = "fit"
    /\ UNCHANGED <<sreq, sparams, serr>>
    /\ UNCHANGED <<dedupVars, hashVars, ctxVars, projVars, tmplVars, reduceVars>>

\* Lines 141-165 and 204-220: the ungrouped result (deduplicate unset, or
\* an empty batch).
SearchFlat ==
    /\ spc = "search"
    /\ \E resp \in SearchReplies(sparams) :
          /\ resp.err = ""
          /\ ~(sreq.deduplicate /\ Len(resp.Messages) > 0)
          /\ sresp' = resp
          /\ LET hasMoreFromPagination ==
                     OriginalOffset(sreq) + RequestedLimit(sreq) < resp.TotalResults
                 fieldList == FieldListOf(sparams.Fields)
                 msgs == TruncateBatch(resp.Messages, sparams.TruncateMessage)
             IN  HandToFit([messages |->
                                [k \in 1..Len(msgs) |->
                                    [message |-> ToFilteredMap(msgs[k].Message, fieldList),
                                     index |-> msgs[k].Index]],
                            total_results |-> resp.TotalResults,
                            limit |-> sparams.Limit,
                            offset |-> sparams.Offset,
                            has_more |-> hasMoreFromPagination], FALSE)
    /\ supstream' = Append(supstream, UpstreamCall("Search", "", sparams.Limit, TRUE))
    /\ spc' = "fit"
    /\ UNCHANGED <<sreq, sparams, uniqueCount, serr>>
    /\ UNCHANGED <<dedupVars, hashVars, ctxVars, projVars, tmplVars, reduceVars>>

(***************************************************************************)
(* tools.templateizeMessages and tools.capTemplateMessageIDs               *)
(***************************************************************************)
MaxTemplates == 3  \* most templates the pattern miner reports

\* The batch handed to templateizeMessages: seven messages m1..m7.
TmplBatch ==
    [k \in 1..7 |->
        MessageWrapper(Message(<<"m", k>>, "t1", "hostA", Str(1, 30, 0), NoExtra), "idx1")]

\* parsed.Groups: events by line; two groups share the event id e1, and one
\* holds line ids outside the batch.
MinerGroups ==
    << [EventID |-> "e1", Events |-> <<0, 1, 2>>],
       [EventID |-> "e2", Events |-> <<3, 4, 5, 6>>],
       [EventID |-> "e1", Events |-> <<-1, 9>>] >>

\* parsed.Templates: any counts, any event ids (e3 is in no group).
MinerTemplates ==
    { [Template |-> Str(1, 30, 0), Count |-> c, EventIDs |-> e] :
        c \in {1, 2, 7}, e \in {<<"e1">>, <<"e1", "e2">>, <<"e3">>} }

MinerOutputs ==
    { [Templates |-> t, Groups |-> MinerGroups] : t \in SeqsUpTo(MinerTemplates, MaxTemplates) }

\* groupEvents[eid]: the line ids of every group with that event id, in order.
RECURSIVE groupEvents(_, _)
groupEvents(groups, eid) ==
    IF groups = <<>> THEN <<>>
    ELSE (IF Head(groups).EventID = eid THEN Head(groups).Events ELSE <<>>)
         \o groupEvents(Tail(groups), eid)

\* The inner loop: messageIDs[lineID] for the line ids inside the batch.
RECURSIVE idsOfLines(_, _)
idsOfLines(lineIDs, messageIDs) ==
    IF lineIDs = <<>> THEN <<>>
    ELSE (IF Head(lineIDs) >= 0 /\ Head(lineIDs) < Len(messageIDs)
          THEN <<messageIDs[Head(lineIDs) + 1]>> ELSE <<>>)
         \o idsOfLines(Tail(lineIDs), messageIDs)

RECURSIVE idsOfEvents(_, _, _)
idsOfEvents(eventIDs, groups, messageIDs) ==
    IF eventIDs = <<>> THEN <<>>
    ELSE idsOfLines(groupEvents(groups, Head(eventIDs)), messageIDs)
         \o idsOfEvents(Tail(eventIDs), groups, messageIDs)

TemplateResult(tmpl, ids) ==
    [Template |-> tmpl.Template, Count |-> tmpl.Count, MessageIDs |-> ids]

\* results, before the sort: one TemplateResult per parsed template.
collectTemplates(parsed, msgs) ==
    LET messageIDs == [k \in 1..Len(msgs) |-> msgs[k].Message.ID]
    IN  [k \in 1..Len(parsed.Templates) |->
            TemplateResult(parsed.Templates[k],
                           idsOfEvents(parsed.Templates[k].EventIDs, parsed.Groups,
                                       messageIDs))]

Reorderings(l) ==
    { [k \in 1..Len(l) |-> l[f[k]]] :
        f \in { g \in [1..Len(l) -> 1..Len(l)] : \A i, j \in 1..Len(l) : i # j => g[i] # g[j] } }

sortByCountNone(res) == { res }

\* sort.Slice(results, Count > Count): the sort is not stable, so any
\* reordering with no later entry of larger count can come out.
sortByCount(res) ==
    { l \in Reorderings(res) :
        \A i, j \in 1..Len(l) : i < j => ~(l[j].Count > l[i].Count) }

capTemplateMessageIDs(res, n) ==
    [k \in 1..Len(res) |->
        IF Len(res[k].MessageIDs) > n
        THEN [res[k] EXCEPT !.MessageIDs = SubSeq(@, 1, n)]
        ELSE res[k]]

NoParse == [none |-> TRUE]

TmplIdle ==
    /\ tmsgs = <<>> /\ tparsed = NoParse /\ tsorted = <<>> /\ tresults = <<>>
    /\ tcap = 0 /\ terr = "" /\ tpc = "idle"

TmplInit ==
    /\ tmsgs \in {<<>>, TmplBatch}
    /\ tcap \in {3, maxMessageIDs}
    /\ tparsed = NoParse /\ tsorted = <<>> /\ tresults = <<>>
    /\ terr = "" /\ tpc = "start"

\* if len(messages) == 0 { return nil, nil }
TmplEmpty ==
    /\ tpc = "start"
    /\ Len(tmsgs) = 0
    /\ tpc' = "returned"
    /\ UNCHANGED <<tmsgs, tparsed, tsorted, tresults, tcap, terr>>
    /\ UNCHANGED <<dedupVars, hashVars, fitVars, ctxVars, projVars, searchVars, reduceVars>>

\* ulp.New or parser.Parse fails.
TmplParseFails ==
    /\ tpc = "start"
    /\ Len(tmsgs) > 0
    /\ terr' = "parse failed"
    /\ tpc' = "failed"
    /\ UNCHANGED <<tmsgs, tparsed, tsorted, tresults, tcap>>
    /\ UNCHANGED <<dedupVars, hashVars, fitVars, ctxVars, projVars, searchVars, reduceVars>>

\* templateizeMessages on a non-empty batch: mine, collect, sort.
TmplMine ==
    /\ tpc = "start"
    /\ Len(tmsgs) > 0
    /\ \E parsed \in MinerOutputs :
          /\ tparsed' = parsed
          /\ \E l \in sortByCount(collectTemplates(parsed, tmsgs)) :
                /\ tresults' = l
                /\ tsorted' = l
    /\ tpc' = "returned"
    /\ UNCHANGED <<tmsgs, tcap, terr>>
    /\ UNCHANGED <<dedupVars, hashVars, fitVars, ctxVars, projVars, searchVars, reduceVars>>

\* capTemplateMessageIDs(results, maxIDs)
TmplCap ==
    /\ tpc = "returned"
    /\ tresults' = capTemplateMessageIDs(tresults, tcap)
    /\ tpc' = "capped"
    /\ UNCHANGED <<tmsgs, tparsed, tsorted, tcap, terr>>
    /\ UNCHANGED <<dedupVars, hashVars, fitVars, ctxVars, projVars, searchVars, reduceVars>>

(***************************************************************************)
(* fitSearchResult's reduceMsgs under fitResult's phase 2 loop, for a      *)
(* result that never comes to fit                                          *)
(***************************************************************************)
ReduceIdle ==
    /\ rstart = 0 /\ rprev = 0 /\ rcount = 0 /\ rcalls = 0 /\ rpc = "idle"

\* searchLogsHandler caps limit at 10000, so the list holds at most that many.
ReduceInit ==
    /\ rstart \in 0..maxSearchLimit
    /\ rcount = rstart
    /\ rprev = rstart
    /\ rcalls = 0
    /\ rpc = "loop"

\* for i := 0; i < 20; i++ { if !adapter.reduceMsgs() { break } ... }
\* with reduceMsgs returning true.
ReduceHalve ==
    /\ rpc = "loop"
    /\ rcalls < MaxReduceIters
    /\ ~(rcount <= 1)
    /\ rprev' = rcount
    /\ rcount' = IF SearchNewCount(rcount) < rcount THEN SearchNewCount(rcount) ELSE rcount
    /\ rcalls' = rcalls + 1
    /\ UNCHANGED <<rstart, rpc>>
    /\ UNCHANGED <<dedupVars, hashVars, fitVars, ctxVars, projVars, searchVars, tmplVars>>

\* reduceMsgs returns false: if count <= 1 { return false }
ReduceStop ==
    /\ rpc = "loop"
    /\ rcalls < MaxReduceIters
    /\ rcount <= 1
    /\ rpc' = "stopped"
    /\ UNCHANGED <<rstart, rprev, rcount, rcalls>>
    /\ UNCHANGED <<dedupVars, hashVars, fitVars, ctxVars, projVars, searchVars, tmplVars>>

(***************************************************************************)
(* Specifications                                                          *)
(***************************************************************************)
DedupSpecInit ==
    DedupInit /\ HashIdle /\ FitIdle /\ CtxIdle /\ ProjIdle /\ SearchIdle
    /\ TmplIdle /\ ReduceIdle

DedupNext == DedupStep \/ DedupReturn \/ CapStep

SpecDedup == DedupSpecInit /\ [][DedupNext]_vars

HashSpecInit ==
    HashInit /\ DedupIdle /\ FitIdle /\ CtxIdle /\ ProjIdle /\ SearchIdle
    /\ TmplIdle /\ ReduceIdle

HashNext == HashPair

SpecHash == HashSpecInit /\ [][HashNext]_vars

FitSpecInit ==
    FitInit /\ DedupIdle /\ HashIdle /\ CtxIdle /\ ProjIdle /\ SearchIdle
    /\ TmplIdle /\ ReduceIdle

FitNext ==
    \/ FitPassThrough \/ FitAlreadyFits \/ FitEnterPhase1 \/ FitTruncate
    \/ FitReduce \/ FitReduceBreak \/ FitReduceExhausted
    \/ FitFallback \/ FitBestEffort

SpecFit == FitSpecInit /\ [][FitNext]_vars

FairSpecFit == SpecFit /\ WF_vars(FitNext)

CtxSpecInit ==
    CtxInit /\ DedupIdle /\ HashIdle /\ FitIdle /\ ProjIdle /\ SearchIdle
    /\ TmplIdle /\ ReduceIdle

\* The handler's own steps, then the steps of fitResult its last line calls
\* (with contextResultMaxSize > 0 and a lastResort, and lists too short for
\* twenty halvings, the other steps of fitResult cannot occur).
CtxNext ==
    \/ CtxReject \/ CtxAccept \/ CtxGetTargetFails \/ CtxGetTarget
    \/ CtxSearchBefore \/ CtxSearchAfter \/ CtxBuildResult
    \/ FitAlreadyFits \/ FitEnterPhase1 \/ FitTruncate \/ FitReduce
    \/ FitReduceBreak \/ FitFallback

SpecContext == CtxSpecInit /\ [][CtxNext]_vars

ProjSpecInit ==
    ProjInit /\ DedupIdle /\ HashIdle /\ FitIdle /\ CtxIdle /\ SearchIdle
    /\ TmplIdle /\ ReduceIdle

ProjNext == ProjectFlat \/ ProjectGroup \/ ProjectContext

SpecProject == ProjSpecInit /\ [][ProjNext]_vars

SearchSpecInit ==
    SearchInit /\ DedupIdle /\ HashIdle /\ FitIdle /\ CtxIdle /\ ProjIdle
    /\ TmplIdle /\ ReduceIdle

\* The handler's own steps, then the steps of fitResult its last line calls
\* (fitSearchResult always supplies a lastResort, and a list of at most
\* 10000 entries is never halved twenty times).
SearchNext ==
    \/ SearchReject \/ SearchAccept \/ SearchFails \/ SearchDedup \/ SearchFlat
    \/ FitPassThrough \/ FitAlreadyFits \/ FitEnterPhase1 \/ FitTruncate \/ FitReduce
    \/ FitReduceBreak \/ FitFallback

SpecSearch == SearchSpecInit /\ [][SearchNext]_vars

\* The server handling one tool call: a search_logs request or a
\* get_log_context request.
HandlersSpecInit ==
    /\ DedupIdle /\ HashIdle /\ FitIdle /\ ProjIdle /\ TmplIdle /\ ReduceIdle
    /\ \/ SearchInit /\ CtxIdle
       \/ CtxInit /\ SearchIdle

HandlersNext ==
    \/ SearchReject \/ SearchAccept \/ SearchFails \/ SearchDedup \/ SearchFlat
    \/ CtxReject \/ CtxAccept \/ CtxGetTargetFails \/ CtxGetTarget
    \/ CtxSearchBefore \/ CtxSearchAfter \/ CtxBuildResult
    \/ FitPassThrough \/ FitAlreadyFits \/ FitEnterPhase1 \/ FitTruncate \/ FitReduce
    \/ FitReduceBreak \/ FitFallback

SpecHandlers == HandlersSpecInit /\ [][HandlersNext]_vars

TmplSpecInit ==
    TmplInit /\ DedupIdle /\ HashIdle /\ FitIdle /\ CtxIdle /\ ProjIdle /\ SearchIdle
    /\ ReduceIdle

TmplNext == TmplEmpty \/ TmplParseFails \/ TmplMine \/ TmplCap

SpecTemplate == TmplSpecInit /\ [][TmplNext]_vars

ReduceSpecInit ==
    ReduceInit /\ DedupIdle /\ HashIdle /\ FitIdle /\ CtxIdle /\ ProjIdle /\ SearchIdle
    /\ TmplIdle

\* The loop condition i < 20 is a guard of both steps: a state in which it
\* fails has no successor.
ReduceNext == ReduceHalve \/ ReduceStop

SpecReduce == ReduceSpecInit /\ [][ReduceNext]_vars

BodySpecInit ==
    BodyInit /\ DedupIdle /\ HashIdle /\ CtxIdle /\ ProjIdle /\ SearchIdle
    /\ TmplIdle /\ ReduceIdle

BodyNext ==
    \/ FitAlreadyFits \/ FitEnterPhase1 \/ FitTruncate \/ FitReduce
    \/ FitReduceBreak \/ FitFallback

SpecFitBodies == BodySpecInit /\ [][BodyNext]_vars

(***************************************************************************)
(* Properties of fitResult                                                 *)
(***************************************************************************)
CallsOf(op) == SelectSeq(calls, LAMBDA c : c.op = op)

NTruncate == Len(CallsOf("truncateMsgs"))
NReduce   == Len(CallsOf("reduceMsgs"))
NFallback == Len(CallsOf("lastResort"))

Truncated(r) == "response_truncated" \in DOMAIN r /\ r["response_truncated"] = TRUE

\* A call that changed the result: a truncation, or a reduction that
\* returned true.
Shrinking(c) == c.op = "truncateMsgs" \/ (c.op = "reduceMsgs" /\ c.ok)

\* C1: fitResult always terminates and returns a result, for any input and
\* any adapter (also one whose reduceMsgs returns true on every call); in
\* one call truncateMsgs is called at most 4 times, reduceMsgs at most 20
\* times and lastResort at most once.
C1_BoundedAndTerminates ==
    /\ [](NTruncate <= 4 /\ NReduce <= 20 /\ NFallback <= 1)
    /\ <>(fpc = "done" /\ out # NoOut)

\* The reduceMsgs of the adapter returned true 20 times, the result never
\* fitted, and fitResult has returned.
C1_Witness ==
    /\ fpc = "done"
    /\ fkind = "stub"
    /\ NTruncate = 4
    /\ NReduce = 20
    /\ \A k \in 1..Len(calls) : calls[k].ok

\* Rank of an adapter operation in the phase order.
PhaseOf(op) == CASE op = "truncateMsgs" -> 1 [] op = "reduceMsgs" -> 2 [] op = "lastResort" -> 3

\* C2: the phases run in strict order and fitResult returns at the first
\* step after which the serialized result is within budget: truncateMsgs is
\* called with 500, 200, 100, 50 in that order; reduceMsgs is never called
\* before all four caps were tried, nor again after it returned false; the
\* fallback is never produced before reduceMsgs returned false or was
\* applied 20 times.
C2_StrictPhaseOrder ==
    LET tr == CallsOf("truncateMsgs")
        rd == CallsOf("reduceMsgs")
        n  == Len(calls)
    IN  /\ \A k \in 1..Len(tr) : tr[k].arg = <<500, 200, 100, 50>>[k]
        /\ \A k \in 1..n : \A l \in 1..n :
              k < l => PhaseOf(calls[k].op) <= PhaseOf(calls[l].op)
        /\ Len(rd) > 0 => Len(tr) = 4
        /\ \A k \in 1..Len(rd) : k < Len(rd) => rd[k].ok
        /\ NFallback > 0 =>
              /\ Len(tr) = 4
              /\ \/ (Len(rd) > 0 /\ ~rd[Len(rd)].ok)
                 \/ (Len(rd) = 20 /\ \A k \in 1..20 : rd[k].ok)
        \* no step was taken once the result was within budget
        /\ n > 0 => (maxSize > 0 /\ MarshalLen(input) > maxSize)
        /\ \A k \in 1..n : (k < n /\ Shrinking(calls[k])) => calls[k].size > maxSize
        /\ (n > 0 /\ Shrinking(calls[n]) /\ calls[n].size <= maxSize) =>
              (fpc = "done" /\ out = result /\ MarshalLen(out) <= maxSize)
        /\ (fpc = "done" /\ retAt \in {"phase1", "phase2"}) =>
              (n > 0 /\ Shrinking(calls[n]) /\ calls[n].size <= maxSize)
        /\ (fpc = "done" /\ retAt = "fits") => (n = 0 /\ MarshalLen(out) <= maxSize)

\* A search result that fitted only after all four truncations and two
\* count reductions.
C2_Witness ==
    /\ fpc = "done"
    /\ fkind = "search"
    /\ retAt = "phase2"
    /\ NTruncate = 4
    /\ NReduce = 2

FallbackKeys ==
    {"total_results", "total_raw_results", "unique_in_batch", "limit", "offset",
     "has_more", "template_count", "total_rows", "metadata",
     "target_message_id", "target_timestamp", "target_index", "context_incomplete",
     "before_error", "after_error", "response_truncated", "error"}

MessageListKeys ==
    {"messages", "deduplicated", "templates", "rows", "target_message",
     "messages_before", "messages_after"}

\* Every truncation and count-reduction step was taken and left the result
\* over budget.
StillOverBudget ==
    LET rd == CallsOf("reduceMsgs")
    IN  /\ NTruncate = 4
        /\ \/ (Len(rd) > 0 /\ ~rd[Len(rd)].ok)
           \/ (Len(rd) = 20 /\ \A k \in 1..20 : rd[k].ok)
        /\ \A k \in 1..Len(calls) : Shrinking(calls[k]) => calls[k].size > maxSize

\* The adapters the repository injects ("stub" stands for any other one,
\* whose fallback is its own business).
RepoKinds == {"search", "dedup", "context", "template", "aggregate"}

\* C3: when the result is still over budget after every truncation and
\* count-reduction step and a fallback is provided, fitResult returns the
\* fallback's output, whatever its size: response_truncated = true, an
\* error string, totals/metadata only and no message list.
C3_FallbackReturned ==
    (fpc = "done" /\ hasLastResort /\ StillOverBudget) =>
        /\ retAt = "fallback"
        /\ out # NoOut
        /\ out # result
        /\ fkind \in RepoKinds => Truncated(out)
        /\ "error" \in DOMAIN out
        /\ DOMAIN out \cap MessageListKeys = {}
        /\ DOMAIN out \subseteq FallbackKeys
        /\ \A k \in DOMAIN out \cap DOMAIN input :
              k \in {"total_results", "total_raw_results", "unique_in_batch",
                     "limit", "offset", "template_count", "total_rows", "metadata",
                     "before_error", "after_error"} => out[k] = input[k]
        /\ fkind = "context" =>
              /\ out["target_message_id"] = input["target_message"].id
              /\ {"messages_before", "messages_after"} \cap DOMAIN out = {}

\* A context window whose fallback is itself over the budget.
C3_Witness ==
    /\ fpc = "done"
    /\ fkind = "context"
    /\ retAt = "fallback"
    /\ StillOverBudget
    /\ MarshalLen(out) > maxSize
    /\ Len(input["messages_before"]) > 0

\* C4: response_truncated is monotonic during fitting: every truncateMsgs
\* step and every successful reduceMsgs step sets it, it is never cleared,
\* and every result returned after such a step (the fallback and the
\* best-effort result included) carries response_truncated = true.
C4_TruncatedMonotonic ==
    [][ /\ Truncated(result) => Truncated(result')
        /\ (calls' # calls /\ Shrinking(calls'[Len(calls')])) => Truncated(result')
        /\ (fpc' = "done" /\ calls' # <<>> /\ (retAt' # "fallback" \/ fkind \in RepoKinds))
              => Truncated(out')
      ]_vars

\* A best-effort result returned over budget by an adapter without fallback.
C4_Witness ==
    /\ fpc = "done"
    /\ retAt = "bestEffort"
    /\ MarshalLen(out) > maxSize
    /\ Truncated(out)

\* C5: with a budget <= 0 fitResult returns the input unmodified: no
\* truncateMsgs, reduceMsgs or lastResort call is made and the result does
\* not gain response_truncated.
C5_PassThrough ==
    (fpc = "done" /\ maxSize <= 0) =>
        /\ out = input
        /\ result = input
        /\ calls = <<>>
        /\ "response_truncated" \notin DOMAIN out

\* A large deduplicated result passed through with budget 0.
C5_Witness ==
    /\ fpc = "done"
    /\ maxSize = 0
    /\ fkind = "dedup"
    /\ MarshalLen(out) > 2000

(***************************************************************************)
(* Properties of Deduplicate, CapMessageIDs and hashMessage                *)
(***************************************************************************)
Counts(res) == [g \in 1..Len(res) |-> res[g].Count]

\* C6: for every batch, the empty one included, the counts of the groups
\* Deduplicate returns sum to the number of messages in the batch (and,
\* inside the loop, to the number of messages consumed so far).
C6_CountsSumToBatch ==
    /\ dpc = "loop" => SumSeq(Counts(results)) = pos
    /\ dpc = "returned" => SumSeq(Counts(results)) = Len(messages)
    /\ (dpc = "returned" /\ messages = <<>>) => results = <<>>

\* A batch of five messages in three groups, one group holding three.
C6_Witness ==
    /\ dpc = "returned"
    /\ Len(messages) = 5
    /\ Len(results) = 3
    /\ \E g \in 1..3 : results[g].Count = 3

HashAt(k) == hashMessage(messages[k].Message, hashFields)

\* Batch positions in ascending order that satisfy Test.
Positions(Test(_)) == SelectSeq([k \in 1..Len(messages) |-> k], Test)

IsFirstOccurrence(k) == \A l \in 1..(k - 1) : HashAt(l) # HashAt(k)

\* C7: Deduplicate returns its groups in the order in which each distinct
\* content first occurs in the batch; a group's message and index are
\* those of that first occurrence and its message_ids are the ids of all
\* its members in batch order (bodies A,B,A,C,B with ids 1..5 give A with
\* ids 1,3, B with ids 2,5, C with ids 4).
C7_FirstOccurrenceOrder ==
    dpc = "returned" =>
        LET firsts == Positions(IsFirstOccurrence)
        IN  /\ Len(results) = Len(firsts)
            /\ \A g \in 1..Len(results) :
                  LET f       == firsts[g]
                      members == Positions(LAMBDA k : HashAt(k) = HashAt(f))
                  IN  /\ results[g].Message = messages[f].Message
                      /\ results[g].Index = messages[f].Index
                      /\ results[g].Count = Len(members)
                      /\ results[g].MessageIDs =
                            [n \in 1..Len(members) |-> messages[members[n]].Message.ID]
            /\ [k \in 1..Len(messages) |-> messages[k].Message.Message]
                  = <<"A", "B", "A", "C", "B">>
               /\ (\A k \in 1..Len(messages) : messages[k].Message.Source = "hostA"
                                               /\ messages[k].Message.Extra = NoExtra)
               => [g \in 1..Len(results) |-> results[g].MessageIDs]
                     = << <<1, 3>>, <<2, 5>>, <<4>> >>

\* The batch with bodies A,B,A,C,B has been deduplicated.
C7_Witness ==
    /\ dpc = "returned"
    /\ hashFields = <<>>
    /\ [k \in 1..Len(messages) |-> messages[k].Message.Message]
          = <<"A", "B", "A", "C", "B">>
    /\ \A k \in 1..Len(messages) : messages[k].Message.Source = "hostA"
                                   /\ messages[k].Message.Extra = NoExtra
    /\ Len(results) = 3

\* m1 and m2 agree on the extension fields named in keys.
AgreeOnExtra(m1, m2, keys) ==
    /\ DOMAIN m1.Extra \cap keys = DOMAIN m2.Extra \cap keys
    /\ \A k \in DOMAIN m1.Extra \cap keys : m1.Extra[k] = m2.Extra[k]

AgreeOnContent(m1, m2) ==
    m1.Source = m2.Source /\ m1.Message = m2.Message /\ AgreeOnExtra(m1, m2, ExtraKeys)

AgreeOnHashedContent(m1, m2) ==
    /\ m1.Source = m2.Source /\ m1.Message = m2.Message
    /\ AgreeOnExtra(m1, m2, ExtraKeys \ {"index"})

\* C8 as stated: with no allow-list two messages fall into the same dedup
\* group if and only if they agree on source, body and every extension
\* field.
C8_SameGroupIffAgreeOnEveryField ==
    (hpc = "hashed" /\ hFields = <<>>) =>
        /\ (Len(hgroups) = 1) <=> AgreeOnContent(hm1, hm2)
        /\ (h1 = h2) <=> AgreeOnContent(hm1, hm2)

\* C8 as amended: with no allow-list two messages fall into the same dedup
\* group if and only if they agree on source, body and every extension
\* field other than one named index; messages that differ only in id and/or
\* timestamp get equal hashes, and messages that differ in body or in a
\* hashed extension field get different hashes.
C8_SameGroupIffAgreeOnHashedFields ==
    (hpc = "hashed" /\ hFields = <<>>) =>
        /\ (Len(hgroups) = 1) <=> AgreeOnHashedContent(hm1, hm2)
        /\ (Len(hgroups) = 1) <=> (h1 = h2)
        /\ AgreeOnContent(hm1, hm2) => h1 = h2
        /\ hm1.Message # hm2.Message => h1 # h2
        /\ ~AgreeOnExtra(hm1, hm2, ExtraKeys \ {"index"}) => h1 # h2

\* Two messages that differ in id and timestamp and carry the same level
\* field share one group of count 2.
C8_Witness ==
    /\ hpc = "hashed"
    /\ hFields = <<>>
    /\ hm1.ID # hm2.ID
    /\ hm1.Timestamp # hm2.Timestamp
    /\ "level" \in DOMAIN hm1.Extra
    /\ AgreeOnContent(hm1, hm2)
    /\ Len(hgroups) = 1
    /\ hgroups[1].Count = 2

\* C9: a content hash never depends on the id, the timestamp or an index
\* discriminator of a message, with or without an allow-list; with an
\* allow-list it depends only on the allow-listed fields, and still excludes
\* id, timestamp and index when the allow-list names one of them.
C9_HashExcludesIdTimestampIndex ==
    hpc = "hashed" =>
        /\ AgreeOnHashedContent(hm1, hm2) => h1 = h2
        /\ (hFields # <<>>
            /\ \A f \in Range(hFields) :
                  /\ f = "source" => hm1.Source = hm2.Source
                  /\ f = "message" => hm1.Message = hm2.Message
                  /\ AgreeOnExtra(hm1, hm2, {f})) => h1 = h2

\* C10: CapMessageIDs(groups, N) leaves every group with at most N message
\* ids, the first N of its original list in the same order (a list of at
\* most N ids is unchanged), and changes no count.
C10_CapKeepsPrefixAndCount ==
    dpc = "capped" =>
        /\ Len(results) = Len(preCap)
        /\ \A g \in 1..Len(results) :
              LET before == preCap[g].MessageIDs
                  after  == results[g].MessageIDs
              IN  /\ Len(after) <= maxIDs
                  /\ Len(after) = Min(maxIDs, Len(before))
                  /\ \A n \in 1..Len(after) : after[n] = before[n]
                  /\ Len(before) <= maxIDs => after = before
                  /\ results[g].Count = preCap[g].Count
                  /\ results[g].Message = preCap[g].Message
                  /\ results[g].Index = preCap[g].Index

\* A group of five ids capped to three beside a group left unchanged.
C10_Witness ==
    /\ dpc = "capped"
    /\ maxIDs = 2
    /\ \E g \in 1..Len(results) :
          /\ Len(preCap[g].MessageIDs) = 4
          /\ results[g].MessageIDs = SubSeq(preCap[g].MessageIDs, 1, 2)
          /\ results[g].Count = 4
    /\ \E g \in 1..Len(results) :
          /\ Len(preCap[g].MessageIDs) = 1
          /\ results[g].MessageIDs = preCap[g].MessageIDs

(***************************************************************************)
(* Properties of the context window assembler                              *)
(***************************************************************************)
IDsOf(msgs) == [k \in 1..Len(msgs) |-> msgs[k].Message.ID]

\* messagesBefore and messagesAfter both hold their final messages.
Assembled == cpc \in {"build", "fit"}

NoRepeat(ids) == \A i, j \in 1..Len(ids) : i # j => ids[i] # ids[j]

NoRepeatOfID(ids) ==
    \A i, j \in 1..Len(ids) : (i # j /\ ids[i] # "") => ids[i] # ids[j]

\* The ids of a list of the payload fitResult returned.
PayloadIDs(key) ==
    IF fpc = "done" /\ key \in DOMAIN out
    THEN [k \in 1..Len(out[key]) |-> out[key][k].id]
    ELSE <<>>

Take(s, n) == SubSeq(s, 1, Min(n, Len(s)))

\* The entries of batch at the positions of P, in batch order.
RECURSIVE AtPositions(_, _, _)
AtPositions(batch, P, k) ==
    IF k > Len(batch) THEN <<>>
    ELSE (IF k \in P THEN <<batch[k]>> ELSE <<>>) \o AtPositions(batch, P, k + 1)

\* Positions of batch whose message is not the target, is not a later
\* duplicate of an id, and has no id of `taken`; every id counts, the empty
\* one too.
QualifyingLiteral(batch, tid, taken) ==
    { k \in 1..Len(batch) :
        /\ batch[k].Message.ID # tid
        /\ \A l \in 1..(k - 1) : batch[l].Message.ID # batch[k].Message.ID
        /\ batch[k].Message.ID \notin taken }

\* The same, where a message without id (empty _id) duplicates and overlaps
\* nothing.
Qualifying(batch, tid, taken) ==
    { k \in 1..Len(batch) :
        /\ batch[k].Message.ID # tid
        /\ \/ batch[k].Message.ID = ""
           \/ /\ \A l \in 1..(k - 1) : batch[l].Message.ID # batch[k].Message.ID
              /\ batch[k].Message.ID \notin taken }

\* C11 (as claimed): in every assembled context window no message id occurs
\* twice among the target, messages_before and messages_after: the target's
\* id is in neither list, no id repeats within a list, and no id of
\* messages_before is in messages_after.
C11_NoIDTwice ==
    Assembled =>
        LET b == IDsOf(messagesBefore)
            a == IDsOf(messagesAfter)
        IN  /\ ctxTarget.Message.ID \notin Range(b) \cup Range(a)
            /\ NoRepeat(b)
            /\ NoRepeat(a)
            /\ Range(b) \cap Range(a) = {}

\* C11 (amended): no non-empty message id occurs twice among the target,
\* messages_before and messages_after, in the assembled window and in the
\* payload returned after fitting; messages whose id is empty are all kept.
C11_NoNonEmptyIDTwice ==
    /\ Assembled =>
          LET b == IDsOf(messagesBefore)
              a == IDsOf(messagesAfter)
          IN  /\ ctxTarget.Message.ID \notin Range(b) \cup Range(a)
              /\ NoRepeatOfID(b)
              /\ NoRepeatOfID(a)
              /\ (Range(b) \cap Range(a)) \subseteq {""}
    /\ (cpc = "fit" /\ fpc = "done") =>
          LET b == PayloadIDs("messages_before")
              a == PayloadIDs("messages_after")
          IN  /\ ctxTarget.Message.ID \notin Range(b) \cup Range(a)
              /\ NoRepeatOfID(b)
              /\ NoRepeatOfID(a)
              /\ (Range(b) \cap Range(a)) \subseteq {""}

\* The ascending batch held the target and a message already in
\* messages_before, and both lists ended up non-empty.
C11_Witness ==
    /\ cpc = "build"
    /\ messagesBefore # <<>>
    /\ messagesAfter # <<>>
    /\ \E k \in 1..Len(afterBatch) : afterBatch[k].Message.ID = ctxTarget.Message.ID
    /\ \E k \in 1..Len(afterBatch) :
          afterBatch[k].Message.ID \in Range(IDsOf(messagesBefore)) \ {""}

\* C12 (as claimed): messages_before is the `before` distinct non-target
\* messages that come first in the descending batch (the nearest ones), listed
\* oldest first, also when the batch holds more than `before` candidates.
\* (A message without id counts as distinct from every other message.)
C12_BeforeEndsAtTarget ==
    (cpc = "after" /\ "before_error" \notin DOMAIN cresult) =>
        messagesBefore =
            Reverse(Take(AtPositions(beforeBatch,
                                     Qualifying(beforeBatch, creq.message_id, {}), 1),
                         ctxBefore))

\* C13 (as claimed): messages_after is the first `after` entries of the
\* ascending batch after removing the target id, later duplicates of an id
\* and every id already in the final messages_before, in batch order.
C13_AfterIsFirstQualifying ==
    (cpc = "build" /\ "after_error" \notin DOMAIN cresult) =>
        messagesAfter =
            Take(AtPositions(afterBatch,
                             QualifyingLiteral(afterBatch, creq.message_id,
                                               Range(IDsOf(messagesBefore))), 1),
                 ctxAfter)

\* C13 (amended): the same, where only non-empty ids count: a message whose
\* id is empty is never removed as a duplicate or as an overlap.
C13_AfterIsFirstQualifyingWithID ==
    (cpc = "build" /\ "after_error" \notin DOMAIN cresult) =>
        messagesAfter =
            Take(AtPositions(afterBatch,
                             Qualifying(afterBatch, creq.message_id,
                                        Range(IDsOf(messagesBefore))), 1),
                 ctxAfter)

\* The ascending batch held a message claimed by messages_before and more
\* qualifying messages than requested.
C13_Witness ==
    /\ cpc = "build"
    /\ ctxAfter >= 1
    /\ Len(messagesAfter) = ctxAfter
    /\ \E k \in 1..Len(afterBatch) :
          afterBatch[k].Message.ID \in Range(IDsOf(messagesBefore)) \ {""}
    /\ Cardinality(Qualifying(afterBatch, creq.message_id,
                              Range(IDsOf(messagesBefore)))) > ctxAfter

ErrorKeys(r) == DOMAIN r \cap {"before_error", "after_error"}

\* The last upstream call of the step failed.
LastCallFailed == ~upstream'[Len(upstream')].ok

C15_Step ==
    /\ cpc' \in {"after", "build", "fit"} => cerr' = ""
    /\ (cpc = "before" /\ cpc' = "after") =>
          LET failed == ctxBefore > 0 /\ LastCallFailed
          IN  /\ ErrorKeys(cresult') = IF failed THEN {"before_error"} ELSE {}
              /\ failed => messagesBefore' = <<>>
    /\ (cpc = "after" /\ cpc' = "build") =>
          LET failed == ctxAfter > 0 /\ LastCallFailed
          IN  /\ ErrorKeys(cresult') =
                     ErrorKeys(cresult) \cup (IF failed THEN {"after_error"} ELSE {})
              /\ failed => messagesAfter' = <<>>
              /\ messagesBefore' = messagesBefore
              /\ (~failed /\ "before_error" \in DOMAIN cresult) =>
                    messagesAfter' =
                        Take(AtPositions(afterBatch',
                                         Qualifying(afterBatch', creq.message_id, {}), 1),
                             ctxAfter)
    /\ (cpc = "build" /\ cpc' = "fit") =>
          /\ ErrorKeys(cresult') = ErrorKeys(cresult)
          /\ IDsOf(cresult'["messages_before"]) = IDsOf(messagesBefore)
          /\ IDsOf(cresult'["messages_after"]) = IDsOf(messagesAfter)
          /\ input' = SizedContext(cresult')
    /\ (cpc = "fit" /\ fpc' = "done") =>
          /\ ErrorKeys(out') = ErrorKeys(cresult)
          /\ retAt' = "fits" => out' = input

\* C15: when one directional search fails the handler still returns a
\* context result, not an error: the error is recorded under the failed
\* side's key only, that side's list is empty, and the other side's list is
\* what its batch yields; the result handed to the fitter (and returned as it
\* is when it fits) holds both lists and the error key.
C15_OneSideFailure == [][C15_Step]_vars

\* The descending search failed, the ascending one did not, and the payload
\* returned holds the error and the messages after the target.
C15_Witness ==
    /\ cpc = "fit"
    /\ fpc = "done"
    /\ retAt = "fits"
    /\ ErrorKeys(out) = {"before_error"}
    /\ out["messages_before"] = <<>>
    /\ Len(out["messages_after"]) >= 1

SearchesOf(order) ==
    SelectSeq(upstream, LAMBDA c : c.op = "Search" /\ c.order = order)

HalvedSide(s) == IF s = 0 THEN 0 ELSE IF s \div 2 < 1 THEN 1 ELSE s \div 2

C17_Step ==
    (fkind = "context" /\ NReduce' = NReduce + 1) =>
        /\ Len(result'["messages_before"]) = HalvedSide(Len(result["messages_before"]))
        /\ Len(result'["messages_after"]) = HalvedSide(Len(result["messages_after"]))
        /\ result'["target_message"] = result["target_message"]
        /\ result'["context_incomplete"] = TRUE

\* C17 (as claimed): every invocation of a context window's reduceCount
\* replaces the size s of each side by max(1, floor(s/2)) when s > 0, leaves
\* an empty side empty, leaves the target message alone, and sets
\* context_incomplete to true.
C17_ContextReduceHalves == [][C17_Step]_vars

(***************************************************************************)
(* Properties of field filtering                                           *)
(***************************************************************************)
\* The extension fields of the message named in the field list.
ListedExtensions(m, fields) ==
    [k \in { e \in DOMAIN m.Extra : \E n \in 1..Len(fields) : fields[n] = e } |->
        m.Extra[k]]

\* C18: ToFilteredMap with an empty field list returns every field of the
\* message; with a non-empty list it returns _id, timestamp and source
\* unconditionally plus exactly the extension fields named in the list.
C18_FilteredMap ==
    "flat" \in pdone =>
        LET m == pmsg.Message
            fields == FieldListOf(pfields)
        IN  /\ {"_id", "timestamp", "source"} \subseteq DOMAIN pFlat
            /\ pFlat["_id"] = m.ID
            /\ pFlat["timestamp"] = m.Timestamp
            /\ pFlat["source"] = m.Source
            /\ Len(fields) = 0 =>
                  /\ DOMAIN pFlat = CoreKeys \cup DOMAIN m.Extra
                  /\ pFlat["message"] = m.Message
                  /\ ExtensionsOf(pFlat) = m.Extra
            /\ Len(fields) > 0 => ExtensionsOf(pFlat) = ListedExtensions(m, fields)

\* A non-empty list kept one extension field and dropped another.
C18_Witness ==
    /\ "flat" \in pdone
    /\ Len(pfields) > 0
    /\ DOMAIN ExtensionsOf(pFlat) # {}
    /\ DOMAIN pmsg.Message.Extra \ DOMAIN pFlat # {}

\* C19: for one message and one field list the extension fields kept are the
\* same in the three output shapes, and timestamp and source are kept in all
\* three.
C19_SameExtensionFields ==
    pdone = {"flat", "group", "context"} =>
        /\ ExtensionsOf(pFlat) = ExtensionsOf(pGroup)
        /\ ExtensionsOf(pGroup) = ExtensionsOf(pCtx)
        /\ \A shape \in {pFlat, pGroup, pCtx} :
              /\ {"timestamp", "source"} \subseteq DOMAIN shape
              /\ shape["timestamp"] = pmsg.Message.Timestamp
              /\ shape["source"] = pmsg.Message.Source

\* All three shapes were computed under a list that drops an extension field
\* and keeps another.
C19_Witness ==
    /\ pdone = {"flat", "group", "context"}
    /\ Len(pfields) > 0
    /\ DOMAIN ExtensionsOf(pGroup) # {}
    /\ DOMAIN pmsg.Message.Extra \ DOMAIN pCtx # {}

(***************************************************************************)
(* Properties of search_logs                                               *)
(***************************************************************************)
\* The batch as it is deduplicated: after truncate_message.
FetchedBatch == TruncateBatch(sresp.Messages, sparams.TruncateMessage)

SameContent(m1, m2) == hashMessage(m1.Message, <<>>) = hashMessage(m2.Message, <<>>)

\* The first message of every group of equal content, in batch order.
FirstOccurrences(batch) ==
    AtPositions(batch,
                { k \in 1..Len(batch) :
                    \A l \in 1..(k - 1) : ~SameContent(batch[l], batch[k]) }, 1)

\* groups[offset : offset+limit], none when offset >= len(groups)
PageOf(groups, offset, limit) ==
    IF offset >= Len(groups) THEN <<>>
    ELSE SubSeq(groups, offset + 1, Min(offset + limit, Len(groups)))

DedupPathTaken == spc = "fit" /\ sreq.deduplicate /\ Len(sresp.Messages) > 0

IssuedCalls == supstream \o upstream

CallsMatching(h, op, order) ==
    { k \in DOMAIN h : h[k].op = op /\ h[k].order = order }

\* C21: a search_logs or get_log_context request that fails validation
\* (missing query, message_id or index; from without to or the reverse; a
\* negative, non-integer or out-of-range number) is answered with an error
\* result and no upstream call is ever issued for it.
C21_RejectedBeforeUpstream ==
    /\ (spc # "idle" /\ sreq \in SearchInvalidRequests) =>
          /\ supstream = <<>>
          /\ sresp = NoMap /\ sresult = NoMap /\ fpc = "idle"
          /\ spc \in {"args", "done"}
          /\ spc = "done" => serr # ""
    /\ (cpc # "idle" /\ creq \in CtxInvalidRequests) =>
          /\ upstream = <<>>
          /\ ctxTarget = NoTarget /\ cresult = NoTarget /\ fpc = "idle"
          /\ cpc \in {"args", "done"}
          /\ cpc = "done" => cerr # ""

C21_Witness ==
    /\ spc = "done"
    /\ sreq.range = IntArg(-1)
    /\ serr = "range must be >= 0"
    /\ IssuedCalls = <<>>

\* C22: no upstream call is retried.  A search_logs request issues at most
\* one Search; a get_log_context request issues at most one GetMessage
\* and at most one Search per direction; a failed call is surfaced once:
\* a failed Search of search_logs or a failed GetMessage ends the request
\* with an error result, a failed directional Search is the only call of
\* its direction and is reported under before_error / after_error.
C22_NoRetries ==
    /\ Len(supstream) <= 1
    /\ Cardinality(CallsMatching(upstream, "GetMessage", "")) <= 1
    /\ Cardinality(CallsMatching(upstream, "Search", "desc")) <= 1
    /\ Cardinality(CallsMatching(upstream, "Search", "asc")) <= 1
    /\ Len(upstream) <= 3
    /\ \A k \in DOMAIN supstream :
          ~supstream[k].ok => (spc = "done" /\ serr # "" /\ fpc = "idle")
    /\ \A k \in DOMAIN upstream :
          /\ (upstream[k].op = "GetMessage" /\ ~upstream[k].ok) =>
                (Len(upstream) = 1 /\ cpc = "done" /\ cerr # "" /\ fpc = "idle")
          /\ (upstream[k].op = "Search" /\ upstream[k].order = "desc") =>
                (~upstream[k].ok <=> "before_error" \in DOMAIN cresult)
          /\ (upstream[k].op = "Search" /\ upstream[k].order = "asc") =>
                (~upstream[k].ok <=> "after_error" \in DOMAIN cresult)
    /\ (cpc = "fit" /\ fpc = "done") =>
          (DOMAIN out \cap {"before_error", "after_error"}
             = DOMAIN cresult \cap {"before_error", "after_error"})

C22_Witness ==
    /\ cpc = "fit" /\ fpc = "done"
    /\ Len(upstream) = 3
    /\ ~upstream[2].ok /\ upstream[3].ok
    /\ "before_error" \in DOMAIN out
    /\ "after_error" \notin DOMAIN out

(***************************************************************************)
(* Properties of templateizeMessages and capTemplateMessageIDs             *)
(***************************************************************************)
SortedByCountDesc(l) == \A k \in 1..(Len(l) - 1) : l[k].Count >= l[k + 1].Count

\* How many entries of l equal e.
Occurrences(l, e) == Cardinality({ k \in DOMAIN l : l[k] = e })

\* C23: whatever the miner reports, templateizeMessages returns the
\* collected templates ordered by non-increasing count, and
\* capTemplateMessageIDs leaves each template with the first maxIDs of its
\* message ids at most (maxIDs is 3 or 5 here), its count and template
\* unchanged, and the order of the list unchanged.
C23_TemplatesSortedAndCapped ==
    /\ (tpc \in {"returned", "capped"} /\ Len(tmsgs) > 0) =>
          LET built == collectTemplates(tparsed, tmsgs)
          IN  /\ SortedByCountDesc(tsorted)
              /\ Len(tsorted) = Len(built)
              /\ \A k \in DOMAIN built :
                    Occurrences(tsorted, built[k]) = Occurrences(built, built[k])
    /\ tpc = "returned" => tresults = tsorted
    /\ tpc = "capped" =>
          /\ Len(tresults) = Len(tsorted)
          /\ SortedByCountDesc(tresults)
          /\ \A k \in DOMAIN tresults :
                /\ Len(tresults[k].MessageIDs) <= tcap
                /\ tresults[k].MessageIDs =
                      SubSeq(tsorted[k].MessageIDs, 1,
                             Min(tcap, Len(tsorted[k].MessageIDs)))
                /\ tresults[k].Count = tsorted[k].Count
                /\ tresults[k].Template = tsorted[k].Template

\* The miner listed a rarer template before a more frequent one with seven
\* message ids, and the cap is 5.
C23_Witness ==
    /\ tpc = "capped"
    /\ tcap = maxMessageIDs
    /\ Len(tmsgs) > 0
    /\ Len(tparsed.Templates) >= 2
    /\ tparsed.Templates[1].Count < tparsed.Templates[2].Count
    /\ Len(tsorted[1].MessageIDs) = 7
    /\ Len(tresults[1].MessageIDs) = maxMessageIDs
    /\ tresults[1].Count = 7

(***************************************************************************)
(* Properties of the truncation step                                       *)
(***************************************************************************)
\* The bodies of a result map, in a fixed order: its lists, then the target.
RECURSIVE BodiesOf(_, _)
BodiesOf(r, keys) ==
    IF keys = <<>>
    THEN (IF "target_message" \in DOMAIN r THEN <<r["target_message"].body>> ELSE <<>>)
    ELSE (IF Head(keys) \in DOMAIN r
          THEN [k \in 1..Len(r[Head(keys)]) |-> r[Head(keys)][k].body] ELSE <<>>)
         \o BodiesOf(r, Tail(keys))

Bodies(r) == BodiesOf(r, ListKeys)

\* This step is a call of adapter.truncateMsgs.
TruncateStepTaken ==
    /\ Len(calls') = Len(calls) + 1
    /\ calls'[Len(calls')].op = "truncateMsgs"

TruncateCap == calls'[Len(calls')].arg

\* C24, as claimed: after a truncateMsgs(cap) step no body is longer than
\* it was before the step, and a body of at most cap bytes is unchanged.
C24_Step ==
    TruncateStepTaken =>
        /\ Len(Bodies(result')) = Len(Bodies(result))
        /\ \A k \in DOMAIN Bodies(result) :
              /\ StrLen(Bodies(result')[k]) <= StrLen(Bodies(result)[k])
              /\ StrLen(Bodies(result)[k]) <= TruncateCap =>
                    Bodies(result')[k] = Bodies(result)[k]

C24_TruncateShrinks == [][C24_Step]_vars

\* C24, amended: after a truncateMsgs(cap) step a body of at most cap
\* bytes is unchanged and every other body is at most cap + 14 bytes long
\* (at most cap bytes of the old text and the 14-byte marker), hence no
\* longer than before when it had at least cap + 14 bytes.
C24_AmendedStep ==
    TruncateStepTaken =>
        /\ Len(Bodies(result')) = Len(Bodies(result))
        /\ \A k \in DOMAIN Bodies(result) :
              LET old == Bodies(result)[k]
                  new == Bodies(result')[k]
              IN  /\ StrLen(old) <= TruncateCap => new = old
                  /\ StrLen(old) > TruncateCap =>
                        /\ StrLen(new) <= TruncateCap + 14
                        /\ new.p <= TruncateCap
                        /\ new.p <= old.p
                  /\ StrLen(old) >= TruncateCap + 14 => StrLen(new) <= StrLen(old)

C24_TruncateBoundsBodies == [][C24_AmendedStep]_vars

\* A body of 505 bytes went through truncateMsgs(500) and has 514 bytes.
C24_Witness ==
    /\ calls # <<>>
    /\ calls[1].op = "truncateMsgs" /\ calls[1].arg = 500
    /\ \E k \in DOMAIN Bodies(input) :
          /\ Bodies(input)[k] = Str(1, 505, 0)
          /\ Len(calls) = 1
          /\ StrLen(Bodies(result)[k]) = 514

(***************************************************************************)
(* Properties of the reduceMsgs closures                                   *)
(***************************************************************************)
\* This step is a call of adapter.reduceMsgs that returned false.
ReduceRefused ==
    /\ Len(calls') = Len(calls) + 1
    /\ calls'[Len(calls')].op = "reduceMsgs"
    /\ ~calls'[Len(calls')].ok

\* C25: reduceMsgs returns false only when no further reduction is
\* possible: for a search or template result only when at most one entry
\* remains, for a context window only when neither messages_before nor
\* messages_after holds more than one message.
C25_Step ==
    ReduceRefused =>
        /\ fkind = "search" => Len(result["messages"]) <= 1
        /\ fkind = "dedup" => Len(result["deduplicated"]) <= 1
        /\ fkind = "template" => Len(result["templates"]) <= 1
        /\ fkind = "context" =>
              /\ Len(result["messages_before"]) <= 1
              /\ Len(result["messages_after"]) <= 1

C25_ReduceFalseOnlyAtEnd == [][C25_Step]_vars

\* C26: the 20-iteration cap of the count-reduction phase never binds for
\* a search result.  Starting from any n <= 10000 entries, each
\* reduceMsgs call that returns true leaves floor(n/2) >= 1 entries, the
\* loop never runs out of iterations, and reduceMsgs returns false after
\* fewer than 20 such calls, with exactly one entry left when n >= 1.
C26_CapNeverBinds ==
    /\ rpc = "loop" => rcalls < MaxReduceIters
    /\ (rpc # "idle" /\ rcalls > 0) =>
          /\ rcount = rprev \div 2
          /\ rcount >= 1
    /\ rpc = "stopped" =>
          /\ rcalls < MaxReduceIters
          /\ rcount = (IF rstart >= 1 THEN 1 ELSE 0)

\* A list of 10000 entries is down to one entry after 13 halvings.
C26_Witness ==
    /\ rpc = "stopped"
    /\ rstart = maxSearchLimit
    /\ rcalls = 13
    /\ rcount = 1

(***************************************************************************)
(* Properties of search_logs responses                                     *)
(***************************************************************************)
\* The groups of a deduplicated result map (none when it has no list).
GroupsOf(r) == IF "deduplicated" \in DOMAIN r THEN r["deduplicated"] ELSE <<>>

CappedGroups(r) ==
    \A k \in DOMAIN GroupsOf(r) :
        /\ Len(GroupsOf(r)[k].message_ids) <= 5
        /\ GroupsOf(r)[k].count >= Len(GroupsOf(r)[k].message_ids)
        /\ GroupsOf(r)[k].count >= 1

\* C27: every deduplicated entry of a search_logs response has at most 5
\* message_ids and a count no smaller than the number of its message_ids,
\* in the result handed to the fitter, at every fitting step and in the
\* returned payload, for every max_result_size including 0.
C27_GroupsCapped ==
    (spc = "fit" /\ fkind = "dedup") =>
        /\ CappedGroups(input)
        /\ CappedGroups(result)
        /\ fpc = "done" => CappedGroups(out)
        /\ \A k \in DOMAIN sresult["deduplicated"] :
              /\ Len(sresult["deduplicated"][k].MessageIDs) <= 5
              /\ sresult["deduplicated"][k].Count >= Len(sresult["deduplicated"][k].MessageIDs)

\* Fitting disabled, and a group of seven messages is returned with five
\* message ids.
C27_Witness ==
    /\ spc = "fit" /\ fkind = "dedup" /\ fpc = "done"
    /\ MaxResultSizeOf(sreq) = 0
    /\ retAt = "passthrough"
    /\ Len(out["deduplicated"]) = 1
    /\ out["deduplicated"][1].count = 7
    /\ Len(out["deduplicated"][1].message_ids) = 5

DedupScalars == {"total_raw_results", "unique_in_batch", "limit", "offset"}

\* r holds a prefix of the groups of r0, each with its count, message ids
\* and other fields as in r0 and a body cut from the one in r0, and the
\* same totals and paging fields.
FittedFrom(r, r0) ==
    /\ \A key \in DedupScalars : key \in DOMAIN r /\ r[key] = r0[key]
    /\ Len(GroupsOf(r)) <= Len(GroupsOf(r0))
    /\ \A k \in DOMAIN GroupsOf(r) :
          LET g  == GroupsOf(r)[k]
              g0 == GroupsOf(r0)[k]
          IN  /\ g.count = g0.count
              /\ g.message_ids = g0.message_ids
              /\ g.rest = g0.rest
              /\ g.body.w = g0.body.w
              /\ g.body.p <= g0.body.p

\* C28: fitting a deduplicated result changes neither the count nor the
\* message_ids of a group that stays in the result, nor total_raw_results,
\* unique_in_batch, limit or offset: truncation alters bodies only, count
\* reduction keeps a prefix of the groups in their order (the fallback
\* keeps the four scalars and no group).
C28_FittingPreservesGroups ==
    (spc = "fit" /\ fkind = "dedup") =>
        /\ input = SizedSearch(sresult)
        /\ FittedFrom(result, input)
        /\ fpc = "done" => FittedFrom(out, input)
        /\ (fpc = "done" /\ retAt # "fallback") => "deduplicated" \in DOMAIN out

\* The fitter cut a body and dropped trailing groups of a deduplicated
\* result.
C28_Witness ==
    /\ spc = "fit" /\ fkind = "dedup" /\ fpc = "done"
    /\ retAt = "phase2"
    /\ Len(out["deduplicated"]) >= 1
    /\ Len(out["deduplicated"]) < Len(input["deduplicated"])
    /\ input["deduplicated"][1] # input["deduplicated"][Len(input["deduplicated"])]
    /\ \E k \in DOMAIN out["deduplicated"] :
          out["deduplicated"][k].body # input["deduplicated"][k].body

\* The list of a search result map (none in the fallback).
EntriesOf(r) ==
    IF "deduplicated" \in DOMAIN r THEN r["deduplicated"]
    ELSE IF "messages" \in DOMAIN r THEN r["messages"]
    ELSE <<>>

\* offset + limit < total_results, for the offset and limit of the request.
BeyondPage == OriginalOffset(sreq) + RequestedLimit(sreq) < sresp.TotalResults

\* Unique groups of the fetched batch remain after the returned page.
GroupsLeft ==
    /\ DedupPathTaken
    /\ Len(FirstOccurrences(FetchedBatch))
         > OriginalOffset(sreq) + Len(sresult["deduplicated"])

\* C29: has_more of a search_logs response is true when offset + limit <
\* total_results, when (deduplicate=true) unique groups of the fetched
\* batch remain after the returned page, and whenever the fitter has
\* dropped entries or returned the fallback.
C29_HasMore ==
    spc = "fit" =>
        /\ (BeyondPage \/ GroupsLeft) => (sresult["has_more"] /\ result["has_more"])
        /\ Len(EntriesOf(result)) < Len(EntriesOf(input)) => result["has_more"]
        /\ fpc = "done" =>
              /\ (BeyondPage \/ GroupsLeft) => out["has_more"]
              /\ Len(EntriesOf(out)) < Len(EntriesOf(input)) => out["has_more"]
              /\ retAt = "fallback" => out["has_more"]

\* Nothing lay beyond the page, and the fitter dropped entries.
C29_Witness ==
    /\ spc = "fit" /\ fpc = "done"
    /\ retAt = "phase2"
    /\ ~BeyondPage /\ ~GroupsLeft
    /\ ~input["has_more"]
    /\ Len(EntriesOf(out)) < Len(EntriesOf(input))
    /\ out["has_more"]

====
